---- MODULE Spec2Model ----
(***************************************************************************)
(* git-vrc "clean" filter: the streaming, non-destructive YAML rewrite     *)
(* engine (src/src/clean/filter/context.rs), the schema rewrite rules      *)
(* (src/src/clean/filter/main.rs) and the component-removal pass           *)
(* (src/src/clean/filter/remove_components.rs).                            *)
(*                                                                         *)
(* Text is a sequence of atoms.  One atom stands for one indivisible run   *)
(* of bytes of the document (an indentation unit, a blank, a line break,   *)
(* an indicator character or a whole scalar) and counts as one unit of     *)
(* offset, so a byte offset of the code is an index between atoms here.    *)
(***************************************************************************)
EXTENDS Integers, Sequences, FiniteSets, TLC

VARIABLES
    doc,        \* the document the run started from
    removed,    \* the fileIDs of the documents whose filtered body is empty
    input,      \* the text the last filter_yaml was called on
    filtered,   \* what it returned
    pc,         \* "start", "main", "removed": the pass that ran last
    gen,        \* how many times the output has been fed back
    omit_args,  \* the arguments of a call of should_omit
    omit_result,\* what the call returned
    stream,     \* the text read from standard input
    iter,       \* YamlSeparated: the str that is left
    chunks,     \* the items YamlSeparated has returned
    sections,   \* the YamlSection list of the run
    line,       \* the line given to ParsedHeadingLine::from_str
    parsed_line, \* what from_str returned
    builder     \* a Context driven call by call

vars == <<doc, removed, input, filtered, pc, gen, omit_args, omit_result,
          stream, iter, chunks, sections, line, parsed_line, builder>>

\* the variables of one document's rewrite, and the others
rewrite_vars == <<doc, removed, input, filtered, gen, omit_args, omit_result>>
stream_vars == <<stream, iter, chunks, sections, line, parsed_line, builder>>

\* ------------------------------------------------------------------ text

SP == " "
IND == "  "
NL == "\n"

\* char::is_whitespace on the atoms of a document
IsWhitespace(a) == a \in {SP, IND, NL}

RECURSIVE TrimEndLen(_, _)
\* str::trim_end(): the length that is left of s[1..n] without trailing whitespace
TrimEndLen(s, n) ==
    IF n > 0 /\ IsWhitespace(s[n]) THEN TrimEndLen(s, n - 1) ELSE n

\* `let v = e; Body(v)`: e is evaluated once, then Body on its value
With(e, Body(_)) == CHOOSE y \in {Body(v) : v \in {e}} : TRUE

\* &yaml[from..to] with the code's 0-based byte offsets
Slice(s, from, to) == SubSeq(s, from + 1, to)

RECURSIVE JoinRange(_, _, _)
JoinRange(frags, lo, hi) ==
    IF lo > hi THEN <<>>
    ELSE IF lo = hi THEN frags[lo]
    ELSE LET mid == (lo + hi) \div 2
         IN  JoinRange(frags, lo, mid) \o JoinRange(frags, mid + 1, hi)

\* [&str]::join(""): the fragments one after the other
Join(frags) == JoinRange(frags, 1, Len(frags))

\* str::starts_with / str::ends_with on the characters of a scalar
StartsWith(s, p) == Len(s) >= Len(p) /\ SubSeq(s, 1, Len(p)) = p
EndsWith(s, p) == Len(s) >= Len(p) /\ SubSeq(s, Len(s) - Len(p) + 1, Len(s)) = p

\* ---------------------------------------------------------- token source
\* yaml_rust::scanner::Scanner on the Unity subset of YAML: block mappings,
\* indentless block sequences, flow mappings and sequences, plain scalars.
\* A token is its type, its span [b, e) and, for a scalar, its text.

Tok(type, b, e, val) == [type |-> type, b |-> b, e |-> e, val |-> val]

\* width of an atom in columns, as far as the indentation rules see it
Width(a) == IF a = IND THEN 2 ELSE 1

RECURSIVE UnrollIndent(_, _, _)
\* Scanner::unroll_indent: close every block deeper than col, each with a
\* zero-width BlockEnd at the place the scanner stands
UnrollIndent(st, col, off) ==
    With(st, LAMBDA s :
        IF s.flow = 0 /\ Len(s.indents) > 0 /\ s.indents[Len(s.indents)] > col
        THEN UnrollIndent([s EXCEPT !.indents = SubSeq(@, 1, Len(@) - 1),
                                    !.toks = Append(@, Tok("BlockEnd", off, off, ""))],
                          col, off)
        ELSE s)

\* Scanner::roll_indent: open a block at col when col is deeper than the
\* current block, with a zero-width start token
RollIndent(st, col, off, type) ==
    With(st, LAMBDA s :
        IF s.flow = 0 /\ (Len(s.indents) = 0 \/ s.indents[Len(s.indents)] < col)
        THEN [s EXCEPT !.indents = Append(@, col),
                       !.toks = Append(@, Tok(type, off, off, ""))]
        ELSE s)

Emit(s, type, b, e, val) == [s EXCEPT !.toks = Append(@, Tok(type, b, e, val))]

\* Scanner::fetch_next_token for the atom at index i (offsets i-1 .. i)
FetchToken(yaml, i, s0) ==
    With(UnrollIndent(s0, s0.col, i - 1), LAMBDA s :
        LET a == yaml[i]
            b == i - 1
            isKey == i < Len(yaml) /\ yaml[i + 1] = ":"
        IN  CASE a = "-" /\ s.flow = 0 ->
                     Emit(RollIndent(s, s.col, b, "BlockSequenceStart"), "BlockEntry", b, i, "")
              [] a = "{" -> [Emit(s, "FlowMappingStart", b, i, "") EXCEPT !.flow = @ + 1]
              [] a = "[" -> [Emit(s, "FlowSequenceStart", b, i, "") EXCEPT !.flow = @ + 1]
              [] a = "}" -> [Emit(s, "FlowMappingEnd", b, i, "") EXCEPT
                                !.flow = IF @ > 0 THEN @ - 1 ELSE 0]
              [] a = "]" -> [Emit(s, "FlowSequenceEnd", b, i, "") EXCEPT
                                !.flow = IF @ > 0 THEN @ - 1 ELSE 0]
              [] a = "," -> Emit(s, "FlowEntry", b, i, "")
              [] a = ":" -> Emit(s, "Value", b, i, "")
              [] OTHER ->
                     IF isKey
                     THEN Emit(Emit(RollIndent(s, s.col, b, "BlockMappingStart"),
                                    "Key", b, b, ""),
                               "Scalar", b, i, a)
                     ELSE Emit(s, "Scalar", b, i, a))

\* one atom of the input: blanks and line breaks move the column, anything
\* else is the start of a token
ScanAtom(yaml, i, s0) ==
    With(s0, LAMBDA s :
        LET a == yaml[i] IN
        IF a = NL THEN [s EXCEPT !.col = 0]
        ELSE IF IsWhitespace(a) THEN [s EXCEPT !.col = @ + Width(a)]
        ELSE [FetchToken(yaml, i, s) EXCEPT !.col = s.col + Width(a)])

RECURSIVE ScanRange(_, _, _, _)
\* the atoms lo..hi in order (split in halves to keep the evaluation shallow)
ScanRange(yaml, lo, hi, s) ==
    IF lo > hi THEN s
    ELSE IF lo = hi THEN ScanAtom(yaml, lo, s)
    ELSE With(ScanRange(yaml, lo, (lo + hi) \div 2, s), LAMBDA left :
             ScanRange(yaml, (lo + hi) \div 2 + 1, hi, left))

\* Scanner::fetch_stream_end: close the open blocks, then StreamEnd
ScanEnd(yaml, s) ==
    Append(UnrollIndent([s EXCEPT !.flow = 0], -1, Len(yaml)).toks,
           Tok("StreamEnd", Len(yaml), Len(yaml), ""))

\* every token the scanner yields for yaml, in order
Scan(yaml) ==
    ScanEnd(yaml, ScanRange(yaml, 1, Len(yaml),
                            [col |-> 0, flow |-> 0, indents |-> <<>>,
                             toks |-> <<Tok("StreamStart", 0, 0, "")>>]))

\* ------------------------------------------------------- ObjectReference

None == <<>>
Some(v) == <<v>>

\* ObjectReference::new / ::null / ::local
ObjectReferenceNew(file_id, guid, obj_type) ==
    [file_id |-> file_id, guid |-> Some(guid), obj_type |-> obj_type]
ObjectReferenceNull == [file_id |-> 0, guid |-> None, obj_type |-> 0]
ObjectReferenceLocal(file_id) == [file_id |-> file_id, guid |-> None, obj_type |-> 0]

\* ObjectReference::is_null
IsNull(r) == r.file_id = 0
\* ObjectReference::is_local: a reference without a guid
IsLocal(r) == r.guid = None

\* #[derive(PartialEq)] on ObjectReference: all three fields
RefEqGuidOnly(a, b) == a.guid = b.guid
RefEq(a, b) == a.file_id = b.file_id /\ a.guid = b.guid /\ a.obj_type = b.obj_type

\* str::parse::<i64>() / str::parse::<u32>() on a decimal scalar: Some(n), or
\* None when the text is no number of the type.  A number is held as an
\* integer of the checker, so the values parsed stay below ten digits; a text
\* of more digits is tested against the range of i64 digit by digit.
DigitValue == [d \in {"0", "1", "2", "3", "4", "5", "6", "7", "8", "9"} |->
                 CASE d = "0" -> 0 [] d = "1" -> 1 [] d = "2" -> 2 [] d = "3" -> 3
                   [] d = "4" -> 4 [] d = "5" -> 5 [] d = "6" -> 6 [] d = "7" -> 7
                   [] d = "8" -> 8 [] d = "9" -> 9]

RECURSIVE ParseDigits(_, _, _)
ParseDigits(s, k, acc) ==
    IF k > Len(s) THEN Some(acc)
    ELSE LET ch == SubSeq(s, k, k) IN
         IF ch \in DOMAIN DigitValue
         THEN ParseDigits(s, k + 1, acc * 10 + DigitValue[ch])
         ELSE None

ParseU32(s) ==
    IF Len(s) = 0 THEN None
    ELSE IF SubSeq(s, 1, 1) = "+"
         THEN (IF Len(s) = 1 THEN None ELSE ParseDigits(s, 2, 0))
         ELSE ParseDigits(s, 1, 0)

\* i64::MAX and the magnitude of i64::MIN, in digits
I64MaxDigits == "9223372036854775807"
I64MinDigits == "9223372036854775808"

RECURSIVE AllDigits(_, _), SkipZeros(_, _), DigitsLeq(_, _, _)
AllDigits(s, k) ==
    k > Len(s) \/ (SubSeq(s, k, k) \in DOMAIN DigitValue /\ AllDigits(s, k + 1))
SkipZeros(s, k) ==
    IF k <= Len(s) /\ SubSeq(s, k, k) = "0" THEN SkipZeros(s, k + 1) ELSE k
\* a <= b for two texts of digits of one length, from digit k on
DigitsLeq(a, b, k) ==
    IF k > Len(a) THEN TRUE
    ELSE IF DigitValue[SubSeq(a, k, k)] < DigitValue[SubSeq(b, k, k)] THEN TRUE
    ELSE IF DigitValue[SubSeq(a, k, k)] > DigitValue[SubSeq(b, k, k)] THEN FALSE
    ELSE DigitsLeq(a, b, k + 1)

\* the checked arithmetic of the parse: the digits of s from k on do not
\* pass limit
WithinLimit(s, k, limit) ==
    LET z == SkipZeros(s, k)
        n == Len(s) - z + 1
    IN  IF n < Len(limit) THEN TRUE
        ELSE IF n > Len(limit) THEN FALSE
        ELSE DigitsLeq(SubSeq(s, z, Len(s)), limit, 1)

\* the magnitude of an i64 from digit k of s on, None on a non-digit, on no
\* digit at all and on overflow
ParseMagnitude(s, k, limit) ==
    IF k > Len(s) \/ ~AllDigits(s, k) \/ ~WithinLimit(s, k, limit) THEN None
    ELSE ParseDigits(s, k, 0)

ParseI64(s) ==
    IF Len(s) = 0 THEN None
    ELSE IF SubSeq(s, 1, 1) = "-"
         THEN LET m == ParseMagnitude(s, 2, I64MinDigits)
              IN  IF m = None THEN None ELSE Some(0 - m[1])
         ELSE IF SubSeq(s, 1, 1) = "+" THEN ParseMagnitude(s, 2, I64MaxDigits)
         ELSE ParseMagnitude(s, 1, I64MaxDigits)

DigitChar == <<"0", "1", "2", "3", "4", "5", "6", "7", "8", "9">>

RECURSIVE FormatNat(_)
FormatNat(n) ==
    IF n < 10 THEN DigitChar[n + 1] ELSE FormatNat(n \div 10) \o DigitChar[(n % 10) + 1]
\* format!("{}", n) of an i64
FormatI64(n) == IF n < 0 THEN "-" \o FormatNat(0 - n) ELSE FormatNat(n)

\* ------------------------------------------------------------------ yaml.rs
\* The stream is a sequence of atoms like a body; a heading line is one atom
\* (its text without the line break) followed by the line-break atom.

\* str::starts_with("---") on the stream
StartsWithSeparator(str) == str # <<>> /\ StartsWith(str[1], "---")

RECURSIVE FindNewline(_, _), FindSeparator(_, _)
\* str::find('\n'): the offset of the first line break at or after k
FindNewline(str, k) ==
    IF k >= Len(str) THEN None
    ELSE IF str[k + 1] = NL THEN Some(k)
    ELSE FindNewline(str, k + 1)

\* str::find("\n---"): the offset of the first line break followed by ---
FindSeparator(str, k) ==
    IF k + 1 >= Len(str) THEN None
    ELSE IF str[k + 1] = NL /\ StartsWith(str[k + 2], "---") THEN Some(k)
    ELSE FindSeparator(str, k + 1)

\* YamlSeparated::next ending the body before the line break of the separator
\* and going on behind it
YamlSeparatedNextDropsBreak(str) ==
    IF Len(str) = 0 THEN [item |-> None, str |-> str]
    ELSE LET lf == FindNewline(str, 0)
             split == IF ~StartsWithSeparator(str) THEN 0
                      ELSE IF lf # None THEN lf[1] + 1 ELSE Len(str)
             heading_line == Slice(str, 0, split)
             str_in == Slice(str, split, Len(str))
             sep == FindSeparator(str_in, 0)
             i == IF sep # None THEN sep[1] + 1 ELSE Len(str_in)
         IN  [item |-> Some(<<heading_line, Slice(str_in, 0, i - (IF sep # None THEN 1 ELSE 0))>>),
              str |-> Slice(str_in, i, Len(str_in))]

\* YamlSeparated::next: the item returned and the str that is left
YamlSeparatedNext(str) ==
    IF Len(str) = 0 THEN [item |-> None, str |-> str]
    ELSE LET lf == FindNewline(str, 0)
             split == IF ~StartsWithSeparator(str) THEN 0
                      ELSE IF lf # None THEN lf[1] + 1 ELSE Len(str)
             heading_line == Slice(str, 0, split)
             str_in == Slice(str, split, Len(str))
             sep == FindSeparator(str_in, 0)
             i == IF sep # None THEN sep[1] + 1 ELSE Len(str_in)
         IN  [item |-> Some(<<heading_line, Slice(str_in, 0, i)>>),
              str |-> Slice(str_in, i, Len(str_in))]

RECURSIVE Collect(_)
\* Iterator::collect on YamlSeparated::new(str)
Collect(str) ==
    LET n == YamlSeparatedNext(str)
    IN  IF n.item = None THEN <<>> ELSE <<n.item[1]>> \o Collect(n.str)

\* char::is_whitespace on the characters of a heading line
IsWhitespaceChar(ch) == ch \in {" ", "\n", "\t", "\r"}

RECURSIVE TrimStartFrom(_, _), FindAmp(_, _), FindNonDigit(_, _), FindNonDigitNoSign(_, _)
TrimStartFrom(s, k) ==
    IF k <= Len(s) /\ IsWhitespaceChar(SubSeq(s, k, k)) THEN TrimStartFrom(s, k + 1) ELSE k
\* str::trim_start
TrimStart(s) == SubSeq(s, TrimStartFrom(s, 1), Len(s))

\* s.find('&')
FindAmp(s, k) ==
    IF k >= Len(s) THEN None
    ELSE IF SubSeq(s, k + 1, k + 1) = "&" THEN Some(k)
    ELSE FindAmp(s, k + 1)

\* the same search with the sign taken for the end of the number
FindNonDigitNoSign(s, k) ==
    IF k >= Len(s) THEN Len(s)
    ELSE IF SubSeq(s, k + 1, k + 1) \notin DOMAIN DigitValue THEN k
    ELSE FindNonDigitNoSign(s, k + 1)

\* s.find(|c| !c.is_ascii_digit() && c != '-').unwrap_or(s.len())
FindNonDigit(s, k) ==
    IF k >= Len(s) THEN Len(s)
    ELSE IF SubSeq(s, k + 1, k + 1) \notin DOMAIN DigitValue \cup {"-"} THEN k
    ELSE FindNonDigit(s, k + 1)

HeadingErr(e) == [ok |-> FALSE, err |-> e, file_id |-> 0, is_stripped |-> FALSE]
ParsedHeadingLine(file_id, is_stripped) ==
    [ok |-> TRUE, err |-> "", file_id |-> file_id, is_stripped |-> is_stripped]

\* from_str taking the flag for granted when any text follows the id
FromStrAnyFlag(s0) ==
    IF ~StartsWith(s0, "--- ") THEN HeadingErr("NoSeparator")
    ELSE LET s1 == TrimStart(SubSeq(s0, 5, Len(s0)))
             amp == FindAmp(s1, 0)
         IN  IF amp = None THEN HeadingErr("NoFileId")
             ELSE LET s2 == SubSeq(s1, amp[1] + 2, Len(s1))
                      non_digit == FindNonDigit(s2, 0)
                      file_id == ParseI64(SubSeq(s2, 1, non_digit))
                      s3 == TrimStart(SubSeq(s2, non_digit + 1, Len(s2)))
                  IN  IF file_id = None THEN HeadingErr("NoFileId")
                      ELSE ParsedHeadingLine(file_id[1], s3 # "")

\* <ParsedHeadingLine as FromStr>::from_str
FromStr(s0) ==
    IF ~StartsWith(s0, "--- ") THEN HeadingErr("NoSeparator")
    ELSE LET s1 == TrimStart(SubSeq(s0, 5, Len(s0)))
             amp == FindAmp(s1, 0)
         IN  IF amp = None THEN HeadingErr("NoFileId")
             ELSE LET s2 == SubSeq(s1, amp[1] + 2, Len(s1))
                      non_digit == FindNonDigit(s2, 0)
                      file_id == ParseI64(SubSeq(s2, 1, non_digit))
                      s3 == TrimStart(SubSeq(s2, non_digit + 1, Len(s2)))
                      is_stripped == StartsWith(s3, "stripped")
                      s4 == IF is_stripped
                            THEN TrimStart(SubSeq(s3, Len("stripped") + 1, Len(s3)))
                            ELSE s3
                  IN  IF file_id = None THEN HeadingErr("NoFileId")
                      ELSE IF s4 # "" THEN HeadingErr("UnknownFlags")
                      ELSE ParsedHeadingLine(file_id[1], is_stripped)

\* ---------------------------------------------------------------- Context
\* struct Context: the token cursor and the output builder of one document.
\* err is the outcome so far ("ok", "EOF" for ParserErr::EOF, "panic" for a
\* panic); a method does nothing once err is set, as `?` and unwinding do.
\* tok, str, ref and bval hold what the last call returned; brk is the
\* ControlFlow a visitor returned; acc, rec, some_written and removed are the
\* variables the closures capture; log is the history of builder calls,
\* iters the number of loop bodies entered in mapping(), sequence() and
\* skip_next_value(), entered the number of tokens delivered when the last of
\* them was entered, stalled whether a loop body was ever entered with no
\* token delivered since the one before, and visits the number of calls of a
\* closure.

NoRec == [target |-> None, property_path |-> None, value |-> None,
          object_reference |-> None]
NoAcc == [file_id |-> None, guid |-> None, object_type |-> None]

\* Context::new
ContextNew(yaml) ==
    [yaml |-> yaml, toks |-> Scan(yaml), ti |-> 0, printed |-> 0,
     last_mark |-> None, mark |-> None, next_token |-> None,
     will_write |-> None, result |-> <<>>, err |-> "ok",
     tok |-> Tok("", 0, 0, ""), str |-> "", ref |-> ObjectReferenceNull,
     brk |-> FALSE, bval |-> FALSE, acc |-> NoAcc, rec |-> NoRec,
     some_written |-> FALSE, removed |-> {}, log |-> <<>>, iters |-> 0,
     entered |-> 0, stalled |-> FALSE, visits |-> 0]

Ok(c) == c.err = "ok"
Panic(ctx) ==
    With(ctx, LAMBDA c :
        IF Ok(c) THEN [c EXCEPT !.err = "panic"] ELSE c)
Logged(c, op, from, to, lit) ==
    [c EXCEPT !.log = Append(@, [op |-> op, from |-> from, to |-> to, lit |-> lit])]

\* the number of tokens next() has delivered: the tokens pulled from the
\* source but for the one that waits in the lookahead slot
Consumed(c) == c.ti - (IF c.next_token = None THEN 0 ELSE 1)

\* peek that pulls a token from the source whether the slot is empty or not
PeekAlwaysPull(ctx) ==
    With(ctx, LAMBDA c :
        IF ~Ok(c) THEN c
        ELSE IF c.ti < Len(c.toks)
             THEN [c EXCEPT !.next_token = Some(c.toks[c.ti + 1]), !.ti = @ + 1]
             ELSE [c EXCEPT !.err = "EOF"])

\* Context::peek
\* peek moving the spans to the token it fetches
PeekMovesSpans(ctx) ==
    With(ctx, LAMBDA c :
        IF ~Ok(c) THEN c
        ELSE IF c.next_token = None
             THEN IF c.ti < Len(c.toks)
                  THEN [c EXCEPT !.next_token = Some(c.toks[c.ti + 1]), !.ti = @ + 1,
                                 !.last_mark = c.mark,
                                 !.mark = Some([b |-> c.toks[c.ti + 1].b,
                                                e |-> c.toks[c.ti + 1].e])]
                  ELSE [c EXCEPT !.err = "EOF"]
             ELSE c)

Peek(ctx) ==
    With(ctx, LAMBDA c :
        IF ~Ok(c) THEN c
        ELSE IF c.next_token = None
             THEN IF c.ti < Len(c.toks)
                  THEN [c EXCEPT !.next_token = Some(c.toks[c.ti + 1]), !.ti = @ + 1]
                  ELSE [c EXCEPT !.err = "EOF"]
             ELSE c)

\* the token type peek() returned
Peeked(c) == c.next_token[1].type

\* next() that panics where the token source has no token left
NextPanicsAtEnd(ctx) ==
    With(ctx, LAMBDA c :
        IF ~Ok(c) THEN c
        ELSE LET c0 == [c EXCEPT !.last_mark = c.mark] IN
             IF c0.next_token # None
             THEN LET t == c0.next_token[1]
                  IN  [c0 EXCEPT !.mark = Some([b |-> t.b, e |-> t.e]),
                                 !.next_token = None, !.tok = t]
             ELSE IF c0.ti < Len(c0.toks)
                  THEN LET t == c0.toks[c0.ti + 1]
                       IN  [c0 EXCEPT !.mark = Some([b |-> t.b, e |-> t.e]),
                                      !.ti = @ + 1, !.tok = t]
                  ELSE [c0 EXCEPT !.err = "panic"])

\* Context::next
Next_(ctx) ==
    With(ctx, LAMBDA c :
        IF ~Ok(c) THEN c
        ELSE LET c0 == [c EXCEPT !.last_mark = c.mark] IN
             IF c0.next_token # None
             THEN LET t == c0.next_token[1]
                  IN  [c0 EXCEPT !.mark = Some([b |-> t.b, e |-> t.e]),
                                 !.next_token = None, !.tok = t]
             ELSE IF c0.ti < Len(c0.toks)
                  THEN LET t == c0.toks[c0.ti + 1]
                       IN  [c0 EXCEPT !.mark = Some([b |-> t.b, e |-> t.e]),
                                      !.ti = @ + 1, !.tok = t]
                  ELSE [c0 EXCEPT !.err = "EOF"])

\* expect_token!(ctx.next()?, T) after the next(): panic on another token
Expect(ctx, type) ==
    With(ctx, LAMBDA c :
        IF Ok(c) /\ c.tok.type # type THEN Panic(c) ELSE c)

\* mark_pos taking the token's place in its line (Marker::col) for its
\* place in the input (Marker::index)
MarkPosCol(c, mark) ==
    LET breaks == {j \in 1..mark.e : c.yaml[j] = NL}
        line_start == IF breaks = {} THEN 0 ELSE CHOOSE j \in breaks : \A m \in breaks : m <= j
    IN  TrimEndLen(c.yaml, mark.e - line_start)

\* mark_pos without the trimming
MarkPosNoTrim(c, mark) == mark.e

\* Context::mark_pos
MarkPos(c, mark) == TrimEndLen(c.yaml, mark.e)

\* clear_will_write that takes the pending range and does not push it
ClearWillWriteDrop(ctx) ==
    With(ctx, LAMBDA c : [c EXCEPT !.will_write = None])

\* Context::clear_will_write
ClearWillWrite(ctx) ==
    With(ctx, LAMBDA c :
        IF c.will_write # None
        THEN [c EXCEPT !.result = Append(@, Slice(c.yaml, c.will_write[1][1], c.will_write[1][2])),
                       !.will_write = None]
        ELSE c)

\* Context::append with the non-contiguous range never flushed
AppendNoFlush(ctx, index) ==
    With(ctx, LAMBDA c :
        IF ~Ok(c) \/ index = c.printed THEN c
        ELSE IF ~(c.printed < index) THEN Panic(c)
        ELSE [c EXCEPT !.will_write =
                           IF c.will_write # None /\ c.will_write[1][2] = c.printed
                           THEN Some(<<c.will_write[1][1], c.will_write[1][2] + (index - c.printed)>>)
                           ELSE Some(<<c.printed, index>>),
                       !.printed = index])

\* Context::append extending the pending range to the length of the request
\* where the code adds that length to its end
AppendShortExtend(ctx, index) ==
    With(ctx, LAMBDA c :
        IF ~Ok(c) \/ index = c.printed THEN c
        ELSE IF ~(c.printed < index) THEN Panic(c)
        ELSE IF c.will_write # None
             THEN IF c.will_write[1][2] = c.printed
                  THEN [c EXCEPT !.will_write =
                                     Some(<<c.will_write[1][1], index - c.printed>>),
                                 !.printed = index]
                  ELSE [c EXCEPT !.result = Append(@, Slice(c.yaml, c.will_write[1][1],
                                                            c.will_write[1][2])),
                                 !.will_write = Some(<<c.printed, index>>),
                                 !.printed = index]
             ELSE [c EXCEPT !.will_write = Some(<<c.printed, index>>), !.printed = index])

\* Context::append with a range that continues the pending one never merged
\* into it
AppendNoMerge(ctx, index) ==
    With(ctx, LAMBDA c :
        IF ~Ok(c) \/ index = c.printed THEN c
        ELSE IF ~(c.printed < index) THEN Panic(c)
        ELSE IF c.will_write # None
             THEN [c EXCEPT !.result = Append(@, Slice(c.yaml, c.will_write[1][1],
                                                       c.will_write[1][2])),
                            !.will_write = Some(<<c.printed, index>>),
                            !.printed = index]
             ELSE [c EXCEPT !.will_write = Some(<<c.printed, index>>), !.printed = index])

\* Context::append
Append_(ctx, index) ==
    With(ctx, LAMBDA c :
        IF ~Ok(c) \/ index = c.printed THEN c
        ELSE IF ~(c.printed < index) THEN Panic(c)
        ELSE IF c.will_write # None
             THEN IF c.will_write[1][2] = c.printed
                  THEN [c EXCEPT !.will_write =
                                     Some(<<c.will_write[1][1],
                                            c.will_write[1][2] + (index - c.printed)>>),
                                 !.printed = index]
                  ELSE [c EXCEPT !.result = Append(@, Slice(c.yaml, c.will_write[1][1],
                                                            c.will_write[1][2])),
                                 !.will_write = Some(<<c.printed, index>>),
                                 !.printed = index]
             ELSE [c EXCEPT !.will_write = Some(<<c.printed, index>>), !.printed = index])

\* Context::write_until_current_token
WriteUntilCurrentToken(ctx) ==
    With(ctx, LAMBDA c :
        IF ~Ok(c) THEN c
        ELSE IF c.mark = None THEN Panic(c)
        ELSE LET index == MarkPos(c, c.mark[1])
             IN  Logged(Append_(c, index), "write", c.printed, index, <<>>))

\* Context::write_until_last_token
WriteUntilLastToken(ctx) ==
    With(ctx, LAMBDA c :
        IF ~Ok(c) THEN c
        ELSE IF c.last_mark = None THEN Panic(c)
        ELSE LET index == MarkPos(c, c.last_mark[1])
             IN  Logged(Append_(c, index), "write", c.printed, index, <<>>))

\* Context::skip_until_last_token
SkipUntilLastToken(ctx) ==
    With(ctx, LAMBDA c :
        IF ~Ok(c) THEN c
        ELSE IF c.last_mark = None THEN Panic(c)
        ELSE LET index == MarkPos(c, c.last_mark[1])
             IN  Logged([c EXCEPT !.printed = index], "skip", c.printed, index, <<>>))

\* Context::skip_until_current_token
SkipUntilCurrentToken(ctx) ==
    With(ctx, LAMBDA c :
        IF ~Ok(c) THEN c
        ELSE IF c.mark = None THEN Panic(c)
        ELSE LET index == MarkPos(c, c.mark[1])
             IN  Logged([c EXCEPT !.printed = index], "skip", c.printed, index, <<>>))

\* Context::append_str
AppendStr(ctx, str) ==
    With(ctx, LAMBDA c :
        IF ~Ok(c) THEN c
        ELSE IF str # <<>>
             THEN Logged([ClearWillWrite(c) EXCEPT !.result = Append(@, str)],
                         "append", c.printed, c.printed, str)
             ELSE c)

\* Context::finish: the builder as it stands when the fragments are returned
\* or concatenated
FinishContext(ctx) ==
    With(ctx, LAMBDA c :
        With(Logged(Append_(c, Len(c.yaml)), "write", c.printed, Len(c.yaml), <<>>), LAMBDA c1 :
        With(ClearWillWrite(c1), LAMBDA c2 :
             IF ~Ok(c1) THEN c1
             ELSE IF Len(c2.result) = 1 THEN c2
             ELSE [c2 EXCEPT !.result = Append(@, Slice(c2.yaml, c2.printed, Len(c2.yaml)))])))

\* finish without the return of the single fragment: the fragments are
\* always joined into a new string
FinishJoined(ctx) ==
    With(ctx, LAMBDA c :
        With(FinishContext(c), LAMBDA f :
             IF ~Ok(f) THEN [status |-> f.err, kind |-> "None", text |-> <<>>, ctx |-> f]
             ELSE [status |-> "ok", kind |-> "Owned", text |-> Join(f.result), ctx |-> f]))

\* Context::finish: the Cow it returns
Finish(ctx) ==
    With(ctx, LAMBDA c :
        With(FinishContext(c), LAMBDA f :
             IF ~Ok(f) THEN [status |-> f.err, kind |-> "None", text |-> <<>>, ctx |-> f]
             ELSE IF Len(ClearWillWrite(Append_(c, Len(c.yaml))).result) = 1
                  THEN [status |-> "ok", kind |-> "Borrowed", text |-> f.result[1], ctx |-> f]
                  ELSE [status |-> "ok", kind |-> "Owned", text |-> Join(f.result), ctx |-> f]))

\* the visitor's ControlFlow::Continue(()) / ControlFlow::Break(v)
Continue(ctx) ==
    With(ctx, LAMBDA c :
        IF Ok(c) THEN [c EXCEPT !.brk = FALSE] ELSE c)
Break(ctx, v) ==
    With(ctx, LAMBDA c :
        IF Ok(c) THEN [c EXCEPT !.brk = TRUE, !.bval = v] ELSE c)

\* the value next_scalar gives for an elided scalar
ElidedScalar == ""

\* Context::next_scalar
\* next_scalar taking the token that stands for an elided value
NextScalarTakesElided(ctx) ==
    With(Peek(ctx), LAMBDA p :
        IF ~Ok(p) THEN p
        ELSE IF Peeked(p) \in {"BlockEnd", "FlowMappingEnd", "Key", "Value"}
             THEN With(Next_(p), LAMBDA n : [n EXCEPT !.str = ElidedScalar])
             ELSE IF Peeked(p) = "Scalar"
                  THEN With(Next_(p), LAMBDA n : [n EXCEPT !.str = n.tok.val])
                  ELSE Panic(p))

NextScalar(ctx) ==
    With(Peek(ctx), LAMBDA p :
        IF ~Ok(p) THEN p
        ELSE IF Peeked(p) \in {"BlockEnd", "FlowMappingEnd", "Key", "Value"}
             THEN [p EXCEPT !.str = ElidedScalar]
             ELSE IF Peeked(p) = "Scalar"
                  THEN With(Next_(p), LAMBDA n : [n EXCEPT !.str = n.tok.val])
                  ELSE Panic(p))

\* ------------------------------------------------------------- literals

LitFileID0 == <<SP, "{", "fileID", ":", SP, "0", "}">>
LitEmptySeq == <<SP, "[", "]">>
LitZero == <<SP, "0">>
LitIndirectSpecularColor ==
    <<SP, "{", "r", ":", SP, "0", ",", SP, "g", ":", SP, "0", ",", SP,
      "b", ":", SP, "0", ",", SP, "a", ":", SP, "1", "}">>

Zeros64 == "0000000000000000000000000000000000000000000000000000000000000000"
Zeros256 == Zeros64 \o Zeros64 \o Zeros64 \o Zeros64
Zeros1024 == Zeros256 \o Zeros256 \o Zeros256 \o Zeros256
\* one line of 64 digits short
LitLayerCollisionArrShort == <<SP, Zeros1024 \o Zeros256 \o Zeros256 \o Zeros256 \o Zeros64
                                   \o Zeros64 \o Zeros64>>

\* the 32 lines of 64 digits of the concat! in mono_behaviour
LitLayerCollisionArr == <<SP, Zeros1024 \o Zeros1024>>

\* PIPELINE_SAVER_REFERENCE
PIPELINE_SAVER_REFERENCE ==
    ObjectReferenceNew(229740497, "4ecd63eff847044b68db9453ce219299", 3)

\* should_omit taking every baseAnimationLayers.Array.data[ path, without
\* the ends_with test
ShouldOmitPrefixOnly(property_path, value, object_reference) ==
    IF property_path = "serializedProgramAsset" /\ value = "~" THEN TRUE
    ELSE IF property_path = "fallbackStatus" /\ IsNull(object_reference) THEN TRUE
    ELSE IF property_path = "layerCollisionArr" /\ IsNull(object_reference) THEN TRUE
    ELSE IF property_path = "completedSDKPipeline" /\ IsNull(object_reference) THEN TRUE
    ELSE IF \/ StartsWith(property_path, "DynamicMaterials.Array")
            \/ StartsWith(property_path, "DynamicPrefabs.Array")
            \/ StartsWith(property_path, "animationHashSet.Array") THEN TRUE
    ELSE IF StartsWith(property_path, "baseAnimationLayers.Array.data[") THEN TRUE
    ELSE FALSE

\* should_omit
should_omit(property_path, value, object_reference) ==
    IF property_path = "serializedProgramAsset" /\ value = "~" THEN TRUE
    ELSE IF property_path = "fallbackStatus" /\ IsNull(object_reference) THEN TRUE
    ELSE IF property_path = "layerCollisionArr" /\ IsNull(object_reference) THEN TRUE
    ELSE IF property_path = "completedSDKPipeline" /\ IsNull(object_reference) THEN TRUE
    ELSE IF \/ StartsWith(property_path, "DynamicMaterials.Array")
            \/ StartsWith(property_path, "DynamicPrefabs.Array")
            \/ StartsWith(property_path, "animationHashSet.Array") THEN TRUE
    ELSE IF /\ StartsWith(property_path, "baseAnimationLayers.Array.data[")
            /\ EndsWith(property_path, "].mask") THEN TRUE
    ELSE FALSE

\* ---------------------------------------------- traversal and rewrite rules
\* A closure passed to mapping() or sequence() is named by a tag and run by
\* Visit.

RECURSIVE Mapping(_, _), MappingBlockLoop(_, _), MappingFlowLoop(_, _)
RECURSIVE Sequence(_, _), SequenceBlockLoop(_, _), SequenceFlowLoop(_, _)
RECURSIVE SkipNextValue(_), SkipBlockEntries(_), Visit(_, _)

\* the body of a `loop` or `while let` is entered
Iterated(ctx) ==
    With(ctx, LAMBDA c :
        IF Ok(c)
        THEN [c EXCEPT !.iters = @ + 1,
                       !.stalled = @ \/ (c.iters > 0 /\ Consumed(c) = c.entered),
                       !.entered = Consumed(c)]
        ELSE c)

\* return_ok_if_break!: what mapping()/sequence() do with the visitor's answer
AfterVisit(ctx) ==
    With(ctx, LAMBDA c :
        IF Ok(c) /\ c.brk THEN [c EXCEPT !.brk = FALSE] ELSE c)

\* mapping()/sequence() returning Ok(R::default())
ReturnDefault(c) == [c EXCEPT !.bval = FALSE, !.brk = FALSE]

\* the BlockMappingStart loop going on after a closure has stopped it
MappingBlockLoopDeaf(ctx, v) ==
    With(Next_(Iterated(ctx)), LAMBDA n :
        IF ~Ok(n) THEN n
        ELSE IF n.tok.type = "Key"
             THEN With(Visit(n, v), LAMBDA r :
                      IF ~Ok(r) THEN r ELSE MappingBlockLoop(r, v))
        ELSE IF n.tok.type = "BlockEnd" THEN ReturnDefault(n)
        ELSE Panic(n))

\* Context::mapping, the BlockMappingStart loop
MappingBlockLoop(ctx, v) ==
    With(Next_(Iterated(ctx)), LAMBDA n :
        IF ~Ok(n) THEN n
        ELSE IF n.tok.type = "Key"
             THEN With(Visit(n, v), LAMBDA r :
                      IF ~Ok(r) \/ r.brk THEN AfterVisit(r) ELSE MappingBlockLoop(r, v))
        ELSE IF n.tok.type = "BlockEnd" THEN ReturnDefault(n)
        ELSE Panic(n))

\* Context::mapping, the FlowMappingStart loop
MappingFlowLoop(ctx, v) ==
    With(Next_(Iterated(ctx)), LAMBDA n :
        IF ~Ok(n) THEN n
        ELSE IF n.tok.type = "Key"
             THEN With(Visit(n, v), LAMBDA r :
                      IF ~Ok(r) \/ r.brk THEN AfterVisit(r)
                      ELSE With(Next_(r), LAMBDA m :
                               IF ~Ok(m) THEN m
                               ELSE IF m.tok.type = "FlowEntry" THEN MappingFlowLoop(m, v)
                               ELSE IF m.tok.type = "FlowMappingEnd" THEN ReturnDefault(m)
                               ELSE Panic(m)))
        ELSE IF n.tok.type = "FlowMappingEnd" THEN ReturnDefault(n)
        ELSE Panic(n))

\* Context::mapping
Mapping(ctx, v) ==
    With(Next_(ctx), LAMBDA n :
        IF ~Ok(n) THEN n
        ELSE IF n.tok.type = "BlockMappingStart" THEN MappingBlockLoop(n, v)
        ELSE IF n.tok.type = "FlowMappingStart" THEN MappingFlowLoop(n, v)
        ELSE Panic(n))

\* Context::sequence, the `while let BlockEntry = self.peek()?` loop
SequenceBlockLoop(ctx, v) ==
    With(Peek(ctx), LAMBDA p :
        IF ~Ok(p) THEN p
        ELSE IF Peeked(p) = "BlockEntry"
             THEN With(Visit(Next_(Iterated(p)), v), LAMBDA r :
                      IF ~Ok(r) \/ r.brk THEN AfterVisit(r) ELSE SequenceBlockLoop(r, v))
             ELSE ReturnDefault(p))

\* the FlowSequenceStart loop returning at the sight of FlowSequenceEnd
\* without taking it
SequenceFlowLoopPeekEnd(ctx, v) ==
    With(Peek(Iterated(ctx)), LAMBDA p :
        IF ~Ok(p) THEN p
        ELSE IF Peeked(p) = "FlowSequenceEnd" THEN ReturnDefault(p)
        ELSE With(Visit(p, v), LAMBDA r :
                 IF ~Ok(r) \/ r.brk THEN AfterVisit(r)
                 ELSE With(Next_(r), LAMBDA m :
                          IF ~Ok(m) THEN m
                          ELSE IF m.tok.type = "FlowEntry" THEN SequenceFlowLoop(m, v)
                          ELSE IF m.tok.type = "FlowSequenceEnd" THEN ReturnDefault(m)
                          ELSE Panic(m))))

\* Context::sequence, the FlowSequenceStart loop
SequenceFlowLoop(ctx, v) ==
    With(Peek(Iterated(ctx)), LAMBDA p :
        IF ~Ok(p) THEN p
        ELSE IF Peeked(p) = "FlowSequenceEnd" THEN ReturnDefault(Next_(p))
        ELSE With(Visit(p, v), LAMBDA r :
                 IF ~Ok(r) \/ r.brk THEN AfterVisit(r)
                 ELSE With(Next_(r), LAMBDA m :
                          IF ~Ok(m) THEN m
                          ELSE IF m.tok.type = "FlowEntry" THEN SequenceFlowLoop(m, v)
                          ELSE IF m.tok.type = "FlowSequenceEnd" THEN ReturnDefault(m)
                          ELSE Panic(m))))

\* Context::sequence
Sequence(ctx, v) ==
    With(Next_(ctx), LAMBDA n :
        IF ~Ok(n) THEN n
        ELSE IF n.tok.type = "BlockEntry"
             THEN With(Visit(n, v), LAMBDA r :
                      IF ~Ok(r) \/ r.brk THEN AfterVisit(r) ELSE SequenceBlockLoop(r, v))
        ELSE IF n.tok.type = "FlowSequenceStart" THEN SequenceFlowLoop(n, v)
        ELSE Panic(n))

\* Context::skip_next_value, the BlockEntry arm
SkipBlockEntries(ctx) ==
    With(Peek(ctx), LAMBDA p :
        IF ~Ok(p) THEN p
        ELSE IF Peeked(p) = "BlockEntry"
             THEN With(SkipNextValue(Next_(Iterated(p))), LAMBDA r :
                      IF ~Ok(r) THEN r ELSE SkipBlockEntries(r))
             ELSE p)

\* Context::skip_next_value
SkipNextValue(ctx) ==
    With(Peek(ctx), LAMBDA p :
        IF ~Ok(p) THEN p
        ELSE IF Peeked(p) \in {"BlockEnd", "FlowMappingEnd", "Key", "Value"} THEN p
        ELSE IF Peeked(p) \in {"BlockMappingStart", "FlowMappingStart"} THEN Mapping(p, "skip")
        ELSE IF Peeked(p) = "BlockEntry" THEN SkipBlockEntries(p)
        ELSE IF Peeked(p) = "FlowSequenceStart" THEN Expect(Next_(Next_(p)), "FlowSequenceEnd")
        ELSE IF Peeked(p) = "Scalar" THEN Next_(p)
        ELSE Panic(p))

\* the closure of skip_next_value: the key, the Value token, then the value
\* unless a FlowEntry follows at once
SkipVisitor(ctx) ==
    With(Expect(Next_(SkipNextValue(ctx)), "Value"), LAMBDA k :
        With(Peek(k), LAMBDA p :
             IF ~Ok(k) THEN k
             ELSE IF Ok(p) /\ Peeked(p) = "FlowEntry" THEN Continue(p)
             ELSE Continue(SkipNextValue(k))))

\* the closure of parse_object_reference
ObjectReferenceVisitor(ctx) ==
    With(Expect(Next_(NextScalar(ctx)), "Value"), LAMBDA k :
        IF ~Ok(k) THEN k
        ELSE IF k.str \notin {"fileID", "guid", "type"} THEN Panic(k)
        ELSE With(NextScalar(k), LAMBDA val :
                 IF ~Ok(val) THEN val
                 ELSE IF k.str = "fileID"
                      THEN IF ParseI64(val.str) = None THEN Panic(val)
                           ELSE Continue([val EXCEPT !.acc.file_id = Some(ParseI64(val.str)[1])])
                 ELSE IF k.str = "guid"
                      THEN Continue([val EXCEPT !.acc.guid = Some(val.str)])
                 ELSE IF ParseU32(val.str) = None THEN Panic(val)
                 ELSE Continue([val EXCEPT !.acc.object_type = Some(ParseU32(val.str)[1])])))

\* parse_object_reference with a reference that needs no type beside its guid
ParseObjectReferenceNoType(ctx) ==
    With(ctx, LAMBDA c :
        IF ~Ok(c) THEN c
        ELSE With(Mapping([c EXCEPT !.acc = NoAcc], "objref"), LAMBDA m :
                 IF ~Ok(m) THEN m
                 ELSE IF m.acc.file_id = None THEN Panic(m)
                 ELSE IF m.acc.file_id[1] = 0 THEN [m EXCEPT !.ref = ObjectReferenceNull]
                 ELSE IF m.acc.guid # None
                      THEN [m EXCEPT !.ref = ObjectReferenceNew(m.acc.file_id[1], m.acc.guid[1],
                                IF m.acc.object_type = None THEN 0 ELSE m.acc.object_type[1])]
                      ELSE [m EXCEPT !.ref = ObjectReferenceLocal(m.acc.file_id[1])]))

\* Context::parse_object_reference
ParseObjectReference(ctx) ==
    With(ctx, LAMBDA c :
        IF ~Ok(c) THEN c
        ELSE With(Mapping([c EXCEPT !.acc = NoAcc], "objref"), LAMBDA m :
                 IF ~Ok(m) THEN m
                 ELSE IF m.acc.file_id = None THEN Panic(m)
                 ELSE IF m.acc.file_id[1] = 0 THEN [m EXCEPT !.ref = ObjectReferenceNull]
                 ELSE IF m.acc.guid # None
                      THEN IF m.acc.object_type = None THEN Panic(m)
                           ELSE [m EXCEPT !.ref = ObjectReferenceNew(m.acc.file_id[1],
                                                                     m.acc.guid[1],
                                                                     m.acc.object_type[1])]
                      ELSE [m EXCEPT !.ref = ObjectReferenceLocal(m.acc.file_id[1])]))

\* "replace with X" without the final skip_until_current_token
ReplaceValueKeepOld(c, lit) ==
    AppendStr(SkipNextValue(WriteUntilCurrentToken(c)), lit)

\* "replace with X": write_until_current_token, skip_next_value, append_str,
\* skip_until_current_token
ReplaceValue(c, lit) ==
    SkipUntilCurrentToken(AppendStr(SkipNextValue(WriteUntilCurrentToken(c)), lit))

\* the DynamicMaterials / DynamicPrefabs arm: append_str before skip_next_value
ReplaceValueAppendFirst(c, lit) ==
    SkipUntilCurrentToken(SkipNextValue(AppendStr(WriteUntilCurrentToken(c), lit)))

\* assert_eq!(ctx.next_scalar()?.0, expected)
AssertScalar(ctx, expected) ==
    With(NextScalar(ctx), LAMBDA n :
        IF Ok(n) /\ n.str \notin expected THEN Panic(n) ELSE n)

\* the closure with the mask treated like every other key
BaseAnimationLayerVisitorNoMask(ctx) ==
    With(Expect(Next_(NextScalar(ctx)), "Value"), LAMBDA k :
        IF ~Ok(k) THEN k
        ELSE Continue(SkipNextValue(k)))

\* the closure of the mapping() in mono_behaviour_base_animation_layers
BaseAnimationLayerVisitor(ctx) ==
    With(Expect(Next_(NextScalar(ctx)), "Value"), LAMBDA k :
        IF ~Ok(k) THEN k
        ELSE IF k.str = "mask" THEN Continue(ReplaceValue(k, LitFileID0))
        ELSE Continue(SkipNextValue(k)))

\* mono_behaviour_base_animation_layers
mono_behaviour_base_animation_layers(c) ==
    Sequence(WriteUntilCurrentToken(c), "base_animation_layer")

\* the closure of mono_behaviour
MonoBehaviourVisitor(ctx) ==
    With(Expect(Next_(NextScalar(ctx)), "Value"), LAMBDA k :
        LET name == k.str IN
        IF ~Ok(k) THEN k
        ELSE IF name = "serializedVersion" THEN Continue(AssertScalar(k, {"2"}))
        ELSE IF name = "m_Script"
             THEN With(ParseObjectReference(k), LAMBDA r :
                      IF Ok(r) /\ RefEq(r.ref, PIPELINE_SAVER_REFERENCE)
                      THEN Break(r, TRUE) ELSE Continue(r))
        ELSE IF name \in {"serializedUdonProgramAsset", "serializedProgramAsset"}
             THEN Continue(ReplaceValue(k, LitFileID0))
        ELSE IF name = "fallbackStatus" THEN Continue(ReplaceValue(k, LitZero))
        ELSE IF name = "animationHashSet" THEN Continue(ReplaceValue(k, LitEmptySeq))
        ELSE IF name = "layerCollisionArr" THEN Continue(ReplaceValue(k, LitLayerCollisionArr))
        ELSE IF name = "completedSDKPipeline" THEN Continue(ReplaceValue(k, LitZero))
        ELSE IF name = "baseAnimationLayers"
             THEN Continue(mono_behaviour_base_animation_layers(k))
        ELSE IF name \in {"DynamicMaterials", "DynamicPrefabs"}
             THEN Continue(ReplaceValueAppendFirst(k, LitEmptySeq))
        ELSE Continue(SkipNextValue(k)))

\* mono_behaviour
mono_behaviour(c) == Mapping(c, "mono_behaviour")

\* the closure of the mapping() of one modification record
ModificationRecordVisitor(ctx) ==
    With(Expect(Next_(NextScalar(ctx)), "Value"), LAMBDA k :
        LET key == k.str IN
        IF ~Ok(k) THEN k
        ELSE IF key = "target"
             THEN With(ParseObjectReference(k), LAMBDA r :
                      IF ~Ok(r) THEN r ELSE Continue([r EXCEPT !.rec.target = Some(r.ref)]))
        ELSE IF key = "propertyPath"
             THEN With(NextScalar(k), LAMBDA r :
                      IF ~Ok(r) THEN r
                      ELSE Continue([r EXCEPT !.rec.property_path = Some(r.str)]))
        ELSE IF key = "value"
             THEN With(NextScalar(k), LAMBDA r :
                      IF ~Ok(r) THEN r ELSE Continue([r EXCEPT !.rec.value = Some(r.str)]))
        ELSE IF key = "objectReference"
             THEN With(ParseObjectReference(k), LAMBDA r :
                      IF ~Ok(r) THEN r
                      ELSE Continue([r EXCEPT !.rec.object_reference = Some(r.ref)]))
        ELSE Panic(k))

\* the closure below with the test of should_omit inverted
ModificationVisitorInverted(ctx) ==
    With(ctx, LAMBDA c :
        With(Mapping([c EXCEPT !.rec = NoRec], "modification_record"), LAMBDA m :
             IF ~Ok(m) THEN m
             ELSE IF \/ m.rec.target = None \/ m.rec.value = None
                     \/ m.rec.property_path = None \/ m.rec.object_reference = None
                  THEN Panic(m)
             ELSE IF ~should_omit(m.rec.property_path[1], m.rec.value[1],
                                 m.rec.object_reference[1])
                  THEN Continue(SkipUntilLastToken(m))
                  ELSE Continue(WriteUntilLastToken([m EXCEPT !.some_written = TRUE]))))

\* the closure of the sequence() in prefab_instance_modifications_sequence
ModificationVisitor(ctx) ==
    With(ctx, LAMBDA c :
        With(Mapping([c EXCEPT !.rec = NoRec], "modification_record"), LAMBDA m :
             IF ~Ok(m) THEN m
             ELSE IF \/ m.rec.target = None \/ m.rec.value = None
                     \/ m.rec.property_path = None \/ m.rec.object_reference = None
                  THEN Panic(m)
             ELSE IF should_omit(m.rec.property_path[1], m.rec.value[1],
                                 m.rec.object_reference[1])
                  THEN Continue(SkipUntilLastToken(m))
                  ELSE Continue(WriteUntilLastToken([m EXCEPT !.some_written = TRUE]))))

\* prefab_instance_modifications_sequence with the `[]` written always
ModificationsSequenceAlwaysEmpty(ctx) ==
    With(WriteUntilCurrentToken(ctx), LAMBDA w :
        IF ~Ok(w) THEN w
        ELSE With(Sequence([w EXCEPT !.some_written = FALSE], "modification"), LAMBDA q :
                 AppendStr(SkipUntilCurrentToken(q), LitEmptySeq)))

\* prefab_instance_modifications_sequence
prefab_instance_modifications_sequence(ctx) ==
    With(WriteUntilCurrentToken(ctx), LAMBDA w :
        IF ~Ok(w) THEN w
        ELSE With(Sequence([w EXCEPT !.some_written = FALSE], "modification"), LAMBDA q :
                 IF Ok(q) /\ ~q.some_written
                 THEN AppendStr(SkipUntilCurrentToken(q), LitEmptySeq)
                 ELSE q))

\* the closure of prefab_instance_modification
PrefabModificationVisitor(ctx) ==
    With(Expect(Next_(NextScalar(ctx)), "Value"), LAMBDA k :
        IF ~Ok(k) THEN k
        ELSE IF k.str = "m_Modifications"
             THEN Continue(prefab_instance_modifications_sequence(k))
        ELSE Continue(SkipNextValue(k)))

\* prefab_instance_modification
prefab_instance_modification(c) == Mapping(c, "prefab_modification")

\* the closure of prefab_instance
PrefabInstanceVisitor(ctx) ==
    With(Expect(Next_(NextScalar(ctx)), "Value"), LAMBDA k :
        IF ~Ok(k) THEN k
        ELSE IF k.str = "serializedVersion" THEN Continue(AssertScalar(k, {"2"}))
        ELSE IF k.str = "m_Modification" THEN Continue(prefab_instance_modification(k))
        ELSE Continue(SkipNextValue(k)))

\* prefab_instance
prefab_instance(c) == Mapping(c, "prefab_instance")

\* the closure of render_settings
RenderSettingsVisitor(ctx) ==
    With(Expect(Next_(NextScalar(ctx)), "Value"), LAMBDA k :
        IF ~Ok(k) THEN k
        ELSE IF k.str = "m_IndirectSpecularColor"
             THEN Continue(ReplaceValue(k, LitIndirectSpecularColor))
        ELSE Continue(SkipNextValue(k)))

\* render_settings
render_settings(c) == Mapping(c, "render_settings")

\* the closure of the sequence() over m_Component in game_object
ComponentVisitor(ctx) ==
    With(ParseObjectReference(
             Expect(Next_(AssertScalar(Expect(Next_(Expect(Next_(ctx), "BlockMappingStart")),
                                              "Key"),
                                       {"component"})),
                    "Value")), LAMBDA r :
        IF ~Ok(r) THEN r
        ELSE IF IsLocal(r.ref) /\ r.ref.file_id \in r.removed
             THEN Continue(Expect(Next_(SkipUntilLastToken(r)), "BlockEnd"))
             ELSE Continue(Expect(Next_(WriteUntilLastToken(r)), "BlockEnd")))

\* the closure of game_object
GameObjectVisitor(ctx) ==
    With(Expect(Next_(NextScalar(ctx)), "Value"), LAMBDA k :
        IF ~Ok(k) THEN k
        ELSE IF k.str = "serializedVersion" THEN Continue(AssertScalar(k, {"5", "6"}))
        ELSE IF k.str = "m_Component"
             THEN Continue(Sequence(WriteUntilCurrentToken(k), "component"))
        ELSE Continue(SkipNextValue(k)))

\* game_object
\* game_object asking for the document to be omitted when it has left out a
\* component
GameObjectOmits(c) ==
    With(Mapping(c, "game_object"), LAMBDA r :
        IF Ok(r) /\ \E i \in 1..Len(r.log) : r.log[i].op = "skip" /\ r.log[i].to > r.log[i].from
        THEN [r EXCEPT !.bval = TRUE]
        ELSE r)

game_object(c) == Mapping(c, "game_object")

\* a closure is called
Visited(ctx) ==
    With(ctx, LAMBDA c :
        IF Ok(c) THEN [c EXCEPT !.visits = @ + 1] ELSE c)

\* a closure for mapping() that skips the value of every key and stops, with
\* the value true, at the key `stop`
StopKeyVisitor(ctx) ==
    With(Expect(Next_(NextScalar(ctx)), "Value"), LAMBDA k :
        With(SkipNextValue(k), LAMBDA r :
             IF ~Ok(r) THEN r
             ELSE IF k.str = "stop" THEN Break(r, TRUE)
             ELSE Continue(r)))

\* a closure for sequence() that reads the scalar of every element and
\* stops, with the value true, at the element `stop`
StopItemVisitor(ctx) ==
    With(NextScalar(ctx), LAMBDA r :
        IF ~Ok(r) THEN r
        ELSE IF r.str = "stop" THEN Break(r, TRUE)
        ELSE Continue(r))

Visit(c, v) ==
    With(Visited(c), LAMBDA d :
        CASE v = "skip" -> SkipVisitor(d)
          [] v = "objref" -> ObjectReferenceVisitor(d)
          [] v = "mono_behaviour" -> MonoBehaviourVisitor(d)
          [] v = "base_animation_layer_map" -> BaseAnimationLayerVisitor(d)
          [] v = "base_animation_layer" -> Continue(Mapping(d, "base_animation_layer_map"))
          [] v = "modification_record" -> ModificationRecordVisitor(d)
          [] v = "modification" -> ModificationVisitor(d)
          [] v = "prefab_modification" -> PrefabModificationVisitor(d)
          [] v = "prefab_instance" -> PrefabInstanceVisitor(d)
          [] v = "render_settings" -> RenderSettingsVisitor(d)
          [] v = "component" -> ComponentVisitor(d)
          [] v = "game_object" -> GameObjectVisitor(d)
          [] v = "stop_key" -> StopKeyVisitor(d)
          [] v = "stop_item" -> StopItemVisitor(d))

\* ------------------------------------------------------------ filter_yaml

\* what filter_yaml returns: Err or a panic (status), or the Cow (kind, text).
\* via is the return statement taken; log, result and printed are the
\* builder's operations, fragments and cursor at that point
Returned(status, via, kind, text, ctx) ==
    With(ctx, LAMBDA c :
        [status |-> status, via |-> via, kind |-> kind, text |-> text, log |-> c.log,
         result |-> c.result, printed |-> c.printed])

Failed(ctx) ==
    With(ctx, LAMBDA c :
        Returned(c.err, "error", "None", <<>>, c))

\* the heading of both filter_yaml: StreamStart, BlockMappingStart, Key, the
\* type scalar, Value
Heading(c) ==
    Expect(Next_(NextScalar(Expect(Next_(Expect(Next_(Expect(Next_(c), "StreamStart")),
                                                "BlockMappingStart")),
                                   "Key"))),
           "Value")

\* the closings of both filter_yaml, then ctx.finish()
Closings(ctx) ==
    With(Expect(Next_(Expect(Next_(ctx), "BlockEnd")), "StreamEnd"), LAMBDA e :
        IF ~Ok(e) THEN Failed(e)
        ELSE With(Finish(e), LAMBDA f :
                 IF f.status # "ok" THEN Failed(f.ctx)
                 ELSE Returned("ok", "finish", f.kind, f.text, f.ctx)))

\* the tail of both filter_yaml after the rule for the type has run
AfterRule(ctx) ==
    With(ctx, LAMBDA r :
        IF ~Ok(r) THEN Failed(r)
        ELSE IF r.bval THEN Returned("ok", "omit", "Borrowed", <<>>, r)
        ELSE Closings(r))

\* clean/filter/main.rs filter_yaml with every unknown type handled as a
\* MonoBehaviour
MainFilterYamlNoPassthrough(yaml) ==
    IF yaml = <<>> THEN Failed(Panic(ContextNew(yaml)))
    ELSE With(Heading(ContextNew(yaml)), LAMBDA h :
             IF ~Ok(h) THEN Failed(h)
             ELSE IF h.str = "PrefabInstance" THEN AfterRule(prefab_instance(h))
             ELSE IF h.str = "RenderSettings" THEN AfterRule(render_settings(h))
             ELSE AfterRule(mono_behaviour(h)))

\* clean/filter/main.rs filter_yaml
MainFilterYaml(yaml) ==
    IF yaml = <<>> THEN Failed(Panic(ContextNew(yaml)))
    ELSE With(Heading(ContextNew(yaml)), LAMBDA h :
             IF ~Ok(h) THEN Failed(h)
             ELSE IF h.str = "MonoBehaviour" THEN AfterRule(mono_behaviour(h))
             ELSE IF h.str = "PrefabInstance" THEN AfterRule(prefab_instance(h))
             ELSE IF h.str = "RenderSettings" THEN AfterRule(render_settings(h))
             ELSE Returned("ok", "passthrough", "Borrowed", yaml, h))

\* clean/filter/remove_components.rs filter_yaml
RemoveComponentsFilterYaml(yaml, is_removed) ==
    With(Heading([ContextNew(yaml) EXCEPT !.removed = is_removed]), LAMBDA h :
        IF ~Ok(h) THEN Failed(h)
        ELSE IF h.str = "GameObject" THEN AfterRule(game_object(h))
        ELSE Returned("ok", "passthrough", "Borrowed", yaml, h))

\* ---------------------------------------------------------- document bodies
\* The bodies the rewrite is run on, in the layout of the documents of the
\* tests of main.rs and remove_components.rs: a type line, then one line (or
\* block) per field.  A field is its key, the form of its value and the parts
\* of the value (tuples of strings).

MaxSeqLen == 2
MaxRecords == 3
MaxComponents == 3
MaxPasses == 1

Field(key, form, arg) == [key |-> key, form |-> form, arg |-> arg]

\* ` {k: v, k: v}`; wrap puts the last pair on a continuation line
FlowMapText(arg, ind) ==
    LET pairs == Tail(arg)
        Pair(i) == (IF i = 1 THEN <<>>
                    ELSE IF i = Len(pairs) /\ arg[1] = <<"wrap">>
                         THEN <<",", NL>> \o ind \o <<IND>>
                         ELSE <<",", SP>>)
                   \o <<pairs[i][1], ":", SP, pairs[i][2]>>
    IN  <<SP, "{">> \o JoinRange([i \in 1..Len(pairs) |-> Pair(i)], 1, Len(pairs)) \o <<"}">>

Ref(fid) == <<<<"">>, <<"fileID", fid>>>>
RefFull(fid, guid, type, wrap) ==
    <<<<wrap>>, <<"fileID", fid>>, <<"guid", guid>>, <<"type", type>>>>

\* one record of m_Modifications: <<propertyPath, value, objectReference
\* fileID, wrap>>; the value "" is an elided `value: `
RecordText(r, ind) ==
    <<NL>> \o ind \o <<"-", SP, "target", ":">>
        \o FlowMapText(RefFull("400000", "abc", "3", r[4]), ind)
    \o <<NL>> \o ind \o <<IND, "propertyPath", ":", SP, r[1]>>
    \o <<NL>> \o ind \o <<IND, "value", ":", SP>> \o (IF r[2] = "" THEN <<>> ELSE <<r[2]>>)
    \o <<NL>> \o ind \o <<IND, "objectReference", ":">> \o FlowMapText(Ref(r[3]), ind)

\* one element of a block sequence of mappings: <<key, text of the value>>
\* pairs, the first after the `- `, the others on lines of their own
ElementText(e, ind) ==
    JoinRange([j \in 1..Len(e) |->
                  <<NL>> \o ind \o (IF j = 1 THEN <<"-", SP>> ELSE <<IND>>)
                  \o <<e[j][1], ":">> \o e[j][2]],
              1, Len(e))

\* the text of a value, after the `:` of its key
FormText(f, ind) ==
    LET n == Len(f.arg)
        Items(item(_)) == JoinRange([i \in 1..n |-> item(i)], 1, n)
        SeqItem(i) == <<NL>> \o ind \o <<"-">> \o FlowMapText(Ref(f.arg[i][1]), ind)
        Layer(i) == <<NL>> \o ind \o <<"-", SP, "isEnabled", ":", SP, "1">>
                    \o <<NL>> \o ind \o <<IND, "mask", ":">>
                    \o FlowMapText(RefFull(f.arg[i][1], "abc", "2", ""), ind)
                    \o <<NL>> \o ind \o <<IND, "isDefault", ":", SP, "0">>
        Comp(i) == <<NL>> \o ind \o <<"-", SP, "component", ":">>
                   \o FlowMapText(IF f.arg[i][2] = "" THEN Ref(f.arg[i][1])
                                  ELSE RefFull(f.arg[i][1], f.arg[i][2], "3", ""), ind)
        Rec(i) == RecordText(f.arg[i], ind \o <<IND>>)
        Element(i) == ElementText(f.arg[i], ind)
    IN  CASE f.form = "scalar" -> <<SP, f.arg[1][1]>>
          [] f.form = "elided" -> f.arg[1]
          [] f.form = "flowSeq" ->
                 <<SP, "[">>
                 \o Items(LAMBDA i : (IF i = 1 THEN <<>> ELSE <<",", SP>>) \o <<f.arg[i][1]>>)
                 \o <<"]">>
          [] f.form = "flowMap" -> FlowMapText(f.arg, ind)
          [] f.form = "blockSeq" -> Items(SeqItem)
          [] f.form = "layers" -> Items(Layer)
          [] f.form = "comps" -> Items(Comp)
          [] f.form = "elements" -> Items(Element)
          [] f.form = "mods" ->
                 <<NL>> \o ind \o <<IND, "m_TransformParent", ":">> \o FlowMapText(Ref("0"), ind)
                 \o <<NL>> \o ind \o <<IND, "m_Modifications", ":">>
                 \o (IF n = 0 THEN <<SP, "[", "]">> ELSE Items(Rec))
                 \o <<NL>> \o ind \o <<IND, "m_RemovedComponents", ":", SP, "[", "]">>

FieldText(f) == <<IND, f.key, ":">> \o FormText(f, <<IND>>)

\* the body of a document: fields on lines of their own, the last line
\* ended by a line break when eol
Render(d) ==
    LET n == Len(d.fields)
        Line(i) == <<NL>> \o FieldText(d.fields[i])
    IN  <<d.type, ":">> \o JoinRange([i \in 1..n |-> Line(i)], 1, n)
        \o (IF d.eol THEN <<NL>> ELSE <<>>)

\* the fileIDs of the items of block sequences and of base layers' masks
ItemIds == <<"11", "12", "13", "14", "15", "16">>
SeqOfItems(n) == [i \in 1..n |-> <<ItemIds[i]>>]

SentinelGuid == "4ecd63eff847044b68db9453ce219299"
OrdinaryScript == RefFull("11500000", "abc", "3", "")
Rgba == <<<<"">>, <<"r", "0.18">>, <<"g", "0.22">>, <<"b", "0.3">>, <<"a", "1">>>>
RgbaWrapped == <<<<"wrap">>, <<"r", "0.18">>, <<"g", "0.22">>, <<"b", "0.3">>, <<"a", "1">>>>

\* m_Script values: the PipelineSaver reference (on one line and wrapped),
\* references that differ from it in one part, a local and a null reference
ScriptPool ==
    { RefFull("229740497", SentinelGuid, "3", ""),
      RefFull("229740497", SentinelGuid, "3", "wrap"),
      RefFull("11500000", SentinelGuid, "3", ""),
      RefFull("229740497", SentinelGuid, "2", ""),
      RefFull("229740497", "abc", "3", ""),
      Ref("229740497"),
      Ref("0") }

\* the forms a value can have: <<form, parts>>
ValueForms ==
    { <<"scalar", <<<<"1">>>> >>,
      <<"elided", <<<<>>>> >>,
      <<"elided", <<<<SP>>>> >>,
      <<"flowSeq", <<>> >>,
      <<"flowMap", Ref("0")>>,
      <<"flowMap", RefFull("11400000", "abc", "2", "")>>,
      <<"flowMap", RefFull("11400000", "abc", "2", "wrap")>> }
    \cup { <<"blockSeq", SeqOfItems(n)>> : n \in 1..MaxSeqLen }

\* the keys mono_behaviour has an arm for, and one it has none for
RuleKeys ==
    { "serializedUdonProgramAsset", "serializedProgramAsset", "fallbackStatus",
      "animationHashSet", "layerCollisionArr", "completedSDKPipeline",
      "DynamicMaterials", "DynamicPrefabs" }

FocusFields ==
    { Field(k, v[1], v[2]) : k \in RuleKeys \cup {"m_Name"}, v \in ValueForms }
    \cup { Field("baseAnimationLayers", "layers", SeqOfItems(n)) : n \in 1..MaxSeqLen }
    \cup { Field("serializedVersion", "scalar", <<<<v>>>>) : v \in {"2", "3"} }
    \cup { Field("m_Name", "flowSeq", <<<<"1">>, <<"2">>>>) }

\* what follows the focus field: nothing, a field no rule names, one a rule
\* names
SecondFields ==
    { <<>>,
      <<Field("m_Name", "scalar", <<<<"x">>>>)>>,
      <<Field("fallbackStatus", "scalar", <<<<"1">>>>)>>,
      <<Field("DynamicPrefabs", "blockSeq", SeqOfItems(1))>> }

Doc(type, fields, eol) == [type |-> type, fields |-> fields, eol |-> eol]

MonoBehaviourDocs ==
    { Doc("MonoBehaviour", <<Field("m_Script", "flowMap", OrdinaryScript), f>> \o g, eol) :
          f \in FocusFields, g \in SecondFields, eol \in BOOLEAN }
    \cup { Doc("MonoBehaviour",
               <<Field("m_Script", "flowMap", r), Field("fallbackStatus", "scalar", <<<<"1">>>>)>>,
               TRUE) : r \in ScriptPool }
    \cup { Doc("MonoBehaviour",
               <<Field("fallbackStatus", "scalar", <<<<"1">>>>), Field("m_Script", "flowMap", r)>>,
               TRUE) : r \in ScriptPool }

\* records of m_Modifications: <<propertyPath, value, objectReference fileID,
\* wrap>>
RecordPool ==
    { <<"m_Name", "x", "0", "">>,
      <<"fallbackStatus", "1", "0", "">>,
      <<"fallbackStatus", "1", "5", "">>,
      <<"serializedProgramAsset", "", "0", "">>,
      <<"serializedProgramAsset", "~", "0", "">>,
      <<"DynamicMaterials.Array.size", "1", "0", "wrap">> }

RECURSIVE SeqsUpTo(_, _)
\* the sequences of at most n elements of S
SeqsUpTo(S, n) ==
    IF n = 0 THEN {<<>>}
    ELSE LET shorter == SeqsUpTo(S, n - 1)
         IN  shorter \cup { Append(q, x) : q \in {r \in shorter : Len(r) = n - 1}, x \in S }

PrefabInstanceDocs ==
    { Doc("PrefabInstance",
          pre \o <<Field("m_Modification", "mods", recs),
                   Field("m_SourcePrefab", "flowMap", RefFull("100100000", "abc", "3", ""))>>,
          TRUE) :
          pre \in {<<>>, <<Field("serializedVersion", "scalar", <<<<"2">>>>)>>},
          recs \in SeqsUpTo(RecordPool, MaxRecords) }

RenderSettingsDocs ==
    { Doc("RenderSettings",
          <<Field("m_Fog", "scalar", <<<<"0">>>>), Field("m_IndirectSpecularColor", v[1], v[2])>>
          \o g, eol) :
          v \in { <<"flowMap", Rgba>>, <<"flowMap", RgbaWrapped>>, <<"scalar", <<<<"1">>>> >>,
                  <<"elided", <<<<>>>> >>, <<"elided", <<<<SP>>>> >>,
                  <<"blockSeq", SeqOfItems(1)>> },
          g \in {<<>>, <<Field("m_Sun", "flowMap", Ref("0"))>>},
          eol \in BOOLEAN }

\* m_Component entries: <<fileID, guid>>
ComponentPool == { <<"1", "">>, <<"2", "">>, <<"1", "abc">> }

GameObjectDocs ==
    { Doc("GameObject",
          <<Field("serializedVersion", "scalar", <<<<"6">>>>),
            Field("m_Component", "comps", comps),
            Field("m_Layer", "scalar", <<<<"0">>>>)>>,
          TRUE) :
          comps \in SeqsUpTo(ComponentPool, MaxComponents) \ {<<>>} }

\* documents of types no rule is written for, holding the fields the rules
\* are written for
OtherDocs ==
    { Doc(t, <<f>>, eol) :
          t \in {"Transform", "MonoScript"},
          f \in { Field("fallbackStatus", "scalar", <<<<"1">>>>),
                  Field("serializedVersion", "scalar", <<<<"9">>>>),
                  Field("m_IndirectSpecularColor", "flowMap", Rgba),
                  Field("m_Script", "flowMap", RefFull("229740497", SentinelGuid, "3", "")),
                  Field("m_Modification", "mods", <<<<"fallbackStatus", "1", "0", "">>>>),
                  Field("m_Component", "comps", <<<<"1", "">>>>),
                  Field("m_Name", "flowSeq", <<<<"1">>, <<"2">>>>),
                  Field("DynamicMaterials", "blockSeq", SeqOfItems(MaxSeqLen)) },
          eol \in BOOLEAN }

DocPool ==
    MonoBehaviourDocs \cup PrefabInstanceDocs \cup RenderSettingsDocs
    \cup GameObjectDocs \cup OtherDocs

\* the fileIDs the m_Component entries of a document name
ComponentIds(d) ==
    UNION { { ParseI64(d.fields[k].arg[i][1])[1] : i \in 1..Len(d.fields[k].arg) } :
            k \in {j \in 1..Len(d.fields) : d.fields[j].form = "comps"} }

\* ------------------------------------------------------------ state machine

NoResult == [status |-> "none", via |-> "none", kind |-> "None", text |-> <<>>,
             log |-> <<>>, result |-> <<>>, printed |-> 0]
NoCall == <<>>
NoParse == [ok |-> FALSE, err |-> "none", file_id |-> 0, is_stripped |-> FALSE]

\* the variables of the stream, before a stream is read
StreamIdle ==
    /\ stream = <<>> /\ iter = <<>> /\ chunks = <<>> /\ sections = <<>>
    /\ line = "" /\ parsed_line = NoParse /\ builder = NoResult

Init ==
    /\ doc \in DocPool
    /\ removed \in SUBSET ComponentIds(doc)
    /\ input = Render(doc)
    /\ filtered = NoResult
    /\ pc = "start"
    /\ gen = 0
    /\ omit_args = NoCall
    /\ omit_result = FALSE
    /\ StreamIdle

\* main::filter on the section
MainFilter ==
    /\ pc = "start"
    /\ filtered' = MainFilterYaml(input)
    /\ pc' = "main"
    /\ UNCHANGED <<doc, removed, input, gen, omit_args, omit_result>>
    /\ UNCHANGED stream_vars

\* remove_components::filter on the section: a section whose filtered body
\* is empty is left alone
RemoveComponentsFilter ==
    /\ pc = "main"
    /\ filtered.status = "ok"
    /\ filtered.text # <<>>
    /\ input' = filtered.text
    /\ filtered' = RemoveComponentsFilterYaml(filtered.text, removed)
    /\ pc' = "removed"
    /\ UNCHANGED <<doc, removed, gen, omit_args, omit_result>>
    /\ UNCHANGED stream_vars

\* the cleaned body is cleaned again (git runs the clean filter on what it
\* checked out)
Reclean ==
    /\ pc = "removed"
    /\ filtered.status = "ok"
    /\ gen < MaxPasses
    /\ input' = filtered.text
    /\ filtered' = NoResult
    /\ pc' = "start"
    /\ gen' = gen + 1
    /\ UNCHANGED <<doc, removed, omit_args, omit_result>>
    /\ UNCHANGED stream_vars

Next == MainFilter \/ RemoveComponentsFilter \/ Reclean

Spec == Init /\ [][Next]_vars

\* ------------------------------------------------- should_omit on its own

\* the arguments should_omit is called with
OmitPaths ==
    { "serializedProgramAsset", "serializedUdonProgramAsset", "fallbackStatus",
      "layerCollisionArr", "completedSDKPipeline", "fallbackStatus.x", "m_Name", "",
      "DynamicMaterials.Array.size", "DynamicPrefabs.Array.data[0]",
      "animationHashSet.Array.size", "DynamicMaterials", "xDynamicMaterials.Array",
      "baseAnimationLayers.Array.data[0].mask", "baseAnimationLayers.Array.data[0].isEnabled",
      "baseAnimationLayers.Array.data[", "].mask", "baseAnimationLayers.Array.size" }
OmitValues == { "~", "", "0", "1" }
OmitReferences ==
    { ObjectReferenceNull, ObjectReferenceLocal(5), ObjectReferenceNew(5, "abc", 3),
      ObjectReferenceNew(0, "abc", 3) }

InitShouldOmit ==
    /\ omit_args \in OmitPaths \X OmitValues \X OmitReferences
    /\ omit_result = FALSE
    /\ pc = "call"
    /\ doc = Doc("", <<>>, FALSE)
    /\ removed = {}
    /\ input = <<>>
    /\ filtered = NoResult
    /\ gen = 0
    /\ StreamIdle

\* a call of should_omit
ShouldOmitCall ==
    /\ pc = "call"
    /\ omit_result' = should_omit(omit_args[1], omit_args[2], omit_args[3])
    /\ pc' = "returned"
    /\ UNCHANGED <<doc, removed, input, filtered, gen, omit_args>>
    /\ UNCHANGED stream_vars

NextShouldOmit == ShouldOmitCall

SpecShouldOmit == InitShouldOmit /\ [][NextShouldOmit]_vars

\* ------------------------------------------------ from_str on its own

HeadingPrefixes == { "--- ", "---", "", "-- ", "---  " }
HeadingTags == { "!u!114 ", "!u!1 ", "" }
HeadingIdParts ==
    { "&1", "&0", "&-1", "&-263184", "&484105423", "&2147483647", "&007",
      "&", "&x1", "1", "&1-2", "&+1", "&-", "& 1", "&1.5",
      "&9223372036854775808", "&-9223372036854775809", "&99999999999999999999" }
HeadingTrailings ==
    { "", " stripped", "\n", " stripped\n", "  stripped ", " foo", " stripped stripped",
      " strippedx", " Stripped", " stripped foo", " x stripped" }

InitHeading ==
    /\ line \in { pre \o tag \o idp \o tr :
                    pre \in HeadingPrefixes, tag \in HeadingTags,
                    idp \in HeadingIdParts, tr \in HeadingTrailings }
    /\ parsed_line = NoParse
    /\ pc = "parse"
    /\ stream = <<>> /\ iter = <<>> /\ chunks = <<>> /\ sections = <<>>
    /\ builder = NoResult
    /\ doc = Doc("", <<>>, FALSE) /\ removed = {} /\ input = <<>>
    /\ filtered = NoResult /\ gen = 0 /\ omit_args = NoCall /\ omit_result = FALSE

\* line.parse::<ParsedHeadingLine>()
ParseHeading ==
    /\ pc = "parse"
    /\ parsed_line' = FromStr(line)
    /\ pc' = "parsed"
    /\ UNCHANGED <<stream, iter, chunks, sections, line, builder>>
    /\ UNCHANGED rewrite_vars

NextHeading == ParseHeading

SpecHeading == InitHeading /\ [][NextHeading]_vars

\* ------------------------------------------- YamlSeparated on its own

MaxStreamLen == 5

SplitAtoms == { "--- A", "---", "x", NL }

InitSplit ==
    /\ stream \in SeqsUpTo(SplitAtoms, MaxStreamLen)
    /\ iter = stream
    /\ chunks = <<>>
    /\ pc = "split"
    /\ sections = <<>> /\ line = "" /\ parsed_line = NoParse /\ builder = NoResult
    /\ doc = Doc("", <<>>, FALSE) /\ removed = {} /\ input = <<>>
    /\ filtered = NoResult /\ gen = 0 /\ omit_args = NoCall /\ omit_result = FALSE

\* one call of YamlSeparated::next by the loop that collects the items
SplitNext ==
    /\ pc = "split"
    /\ LET n == YamlSeparatedNext(iter)
       IN  IF n.item = None
           THEN pc' = "split_done" /\ UNCHANGED <<iter, chunks>>
           ELSE pc' = pc /\ iter' = n.str /\ chunks' = Append(chunks, n.item[1])
    /\ UNCHANGED <<stream, sections, line, parsed_line, builder>>
    /\ UNCHANGED rewrite_vars

NextSplit == SplitNext

SpecSplit == InitSplit /\ [][NextSplit]_vars

\* --------------------------------------------- the passes over a stream
\* The driver splits the stream, parses the heading lines into sections and
\* runs the three passes over them: main::filter, the pruning of stripped
\* objects, remove_components::filter.

MaxSections == 2

\* struct YamlSection
YamlSection(h, p, f) == [heading |-> h, parsed |-> p, filtered |-> f]

\* the bodies of the documents of a stream: GameObjects naming the first two
\* documents, a PipelineSaver MonoBehaviour, MonoBehaviours naming a document
\* in a field that is kept and in one that is rewritten, a Transform naming a
\* document, a MonoBehaviour naming none
StreamDocPool ==
    { Doc("GameObject",
          <<Field("serializedVersion", "scalar", <<<<"6">>>>),
            Field("m_Component", "comps", <<<<"1", "">>, <<"2", "">>>>),
            Field("m_Layer", "scalar", <<<<"0">>>>)>>, TRUE),
      Doc("GameObject",
          <<Field("serializedVersion", "scalar", <<<<"6">>>>),
            Field("m_Component", "comps", <<<<"3", "">>, <<"2", "">>, <<"1", "">>>>),
            Field("m_Layer", "scalar", <<<<"0">>>>)>>, TRUE),
      Doc("MonoBehaviour",
          <<Field("m_Script", "flowMap", RefFull("229740497", SentinelGuid, "3", "")),
            Field("m_Target", "flowMap", Ref("1"))>>, TRUE),
      Doc("MonoBehaviour",
          <<Field("m_Script", "flowMap", OrdinaryScript),
            Field("m_Target", "flowMap", Ref("1"))>>, TRUE),
      Doc("MonoBehaviour",
          <<Field("m_Script", "flowMap", OrdinaryScript),
            Field("serializedProgramAsset", "flowMap", Ref("2"))>>, TRUE),
      Doc("Transform", <<Field("m_Father", "flowMap", Ref("2"))>>, TRUE),
      Doc("MonoBehaviour",
          <<Field("m_Script", "flowMap", OrdinaryScript),
            Field("m_Name", "scalar", <<<<"x">>>>)>>, TRUE) }

\* the class id Unity writes in the heading line of a document of a type
ClassId(type) ==
    CASE type = "GameObject" -> "1"
      [] type = "Transform" -> "4"
      [] OTHER -> "114"

\* the heading line of the document with a fileID
HeadingLine(type, file_id, is_stripped) ==
    "--- !u!" \o ClassId(type) \o " &" \o FormatI64(file_id)
    \o (IF is_stripped THEN " stripped" ELSE "")

\* the text of a stream: the header, then the documents of q (pairs of a
\* body and the stripped flag), the k-th with the fileID k
StreamText(q) ==
    <<"%YAML 1.1", NL>>
    \o JoinRange([k \in 1..Len(q) |->
                     <<HeadingLine(q[k][1].type, k, q[k][2]), NL>> \o Render(q[k][1])],
                 1, Len(q))

RECURSIVE ConcatAtoms(_)
\* the &str a slice of the stream is
ConcatAtoms(atoms) ==
    IF atoms = <<>> THEN "" ELSE Head(atoms) \o ConcatAtoms(Tail(atoms))

\* the Cow<str> a section holds
Cow(kind, text) == [kind |-> kind, text |-> text]

\* the driver: the first chunk is the header, every other chunk becomes a
\* section with its heading line parsed and its body borrowed
SectionsOf(items) ==
    [k \in 1..(Len(items) - 1) |->
        YamlSection(items[k + 1][1], FromStr(ConcatAtoms(items[k + 1][1])),
                    Cow("Borrowed", items[k + 1][2]))]

\* main::filter: filter_yaml on every section in order, `?` on the first Err
RECURSIVE MainFilterFrom(_, _)
MainFilterFrom(secs, k) ==
    IF k > Len(secs) THEN [status |-> "ok", sections |-> secs]
    ELSE With(MainFilterYaml(secs[k].filtered.text), LAMBDA r :
             IF r.status # "ok" THEN [status |-> r.status, sections |-> secs]
             ELSE MainFilterFrom(
                      [secs EXCEPT ![k].filtered =
                          Cow(IF secs[k].filtered.kind = "Owned" THEN "Owned" ELSE r.kind,
                              r.text)],
                      k + 1))

\* format!("{{fileID: {}}}", file_id) as the atoms of a body
ReferenceText(file_id) == <<"{", "fileID", ":", SP, FormatI64(file_id), "}">>

\* str::contains
Contains(text, pat) ==
    \E i \in 0..(Len(text) - Len(pat)) : Slice(text, i, i + Len(pat)) = pat

\* the same search over every section, the section itself included
IsReferencedByAny(secs, k) ==
    \E j \in 1..Len(secs) :
        Contains(secs[j].filtered.text, ReferenceText(secs[k].parsed.file_id))

\* whether another section's body names the fileID of section k
IsReferenced(secs, k) ==
    \E j \in 1..Len(secs) :
        j # k /\ Contains(secs[j].filtered.text, ReferenceText(secs[k].parsed.file_id))

\* the pruning pass: a stripped section no other rewritten body names is
\* emptied
PruneSections(secs) ==
    [k \in 1..Len(secs) |->
        IF secs[k].parsed.is_stripped /\ ~IsReferenced(secs, k)
        THEN [secs[k] EXCEPT !.filtered = Cow("Borrowed", <<>>)]
        ELSE secs[k]]

\* the removed set of remove_components::filter: the fileIDs of the sections
\* whose filtered is empty
RemovedOf(secs, upto) ==
    { secs[j].parsed.file_id : j \in {i \in 1..upto : secs[i].filtered.text = <<>>} }

\* the removed set as a single loop would have it at section k
RemovedSoFar(secs, k) == RemovedOf(secs, k)

\* the removed set the second loop of remove_components::filter works with
RemovedSet(secs, k) == RemovedOf(secs, Len(secs))

\* remove_components::filter: the second loop
RECURSIVE RemoveComponentsFrom(_, _, _)
RemoveComponentsFrom(secs, orig, k) ==
    IF k > Len(secs) THEN [status |-> "ok", sections |-> secs]
    ELSE IF secs[k].filtered.text = <<>> THEN RemoveComponentsFrom(secs, orig, k + 1)
    ELSE With(RemoveComponentsFilterYaml(secs[k].filtered.text, RemovedSet(orig, k)),
              LAMBDA r :
                 IF r.status # "ok" THEN [status |-> r.status, sections |-> secs]
                 ELSE RemoveComponentsFrom(
                          [secs EXCEPT ![k].filtered =
                              Cow(IF secs[k].filtered.kind = "Owned" THEN "Owned" ELSE r.kind,
                                  r.text)],
                          orig, k + 1))

InitStream ==
    /\ stream \in { StreamText(q) :
                      q \in SeqsUpTo(StreamDocPool \X BOOLEAN, MaxSections) \ {<<>>} }
    /\ iter = stream
    /\ chunks = <<>>
    /\ sections = <<>>
    /\ pc = "stream"
    /\ line = "" /\ parsed_line = NoParse /\ builder = NoResult
    /\ doc = Doc("", <<>>, FALSE) /\ removed = {} /\ input = <<>>
    /\ filtered = NoResult /\ gen = 0 /\ omit_args = NoCall /\ omit_result = FALSE

\* the stream is split and the heading lines are parsed; a heading line that
\* does not parse ends the run
ReadSections ==
    /\ pc = "stream"
    /\ chunks' = Collect(stream)
    /\ iter' = <<>>
    /\ sections' = SectionsOf(chunks')
    /\ pc' = IF \A k \in 1..Len(sections') : sections'[k].parsed.ok
             THEN "sections" ELSE "failed"
    /\ UNCHANGED <<stream, line, parsed_line, builder>>
    /\ UNCHANGED rewrite_vars

\* main::filter(&mut sections)?
MainFilterSections ==
    /\ pc = "sections"
    /\ \E r \in {MainFilterFrom(sections, 1)} :
           /\ sections' = r.sections
           /\ pc' = IF r.status = "ok" THEN "rewritten" ELSE "failed"
    /\ UNCHANGED <<stream, iter, chunks, line, parsed_line, builder>>
    /\ UNCHANGED rewrite_vars

\* the pruning of the stripped objects nothing refers to
PruneStripped ==
    /\ pc = "rewritten"
    /\ sections' = PruneSections(sections)
    /\ pc' = "pruned"
    /\ UNCHANGED <<stream, iter, chunks, line, parsed_line, builder>>
    /\ UNCHANGED rewrite_vars

\* remove_components::filter(&mut sections)?
RemoveComponentsSections ==
    /\ pc = "pruned"
    /\ \E r \in {RemoveComponentsFrom(sections, sections, 1)} :
           /\ sections' = r.sections
           /\ pc' = IF r.status = "ok" THEN "cleaned" ELSE "failed"
    /\ UNCHANGED <<stream, iter, chunks, line, parsed_line, builder>>
    /\ UNCHANGED rewrite_vars

NextStream ==
    ReadSections \/ MainFilterSections \/ PruneStripped \/ RemoveComponentsSections

SpecStream == InitStream /\ [][NextStream]_vars

\* ------------------------------------------------ the builder on its own
\* A Context is driven by hand: tokens are taken with next() and the builder
\* methods are called in any order, then finish().

MaxOps == 3

BuilderInputs ==
    { <<"a", ":", SP, "1">>,
      <<"a", ":", SP, "1", SP, NL>> }

BuilderLiterals == { <<SP, "0">>, <<>> }

InitBuilder ==
    /\ input \in BuilderInputs
    /\ builder = ContextNew(input)
    /\ filtered = NoResult
    /\ gen = 0
    /\ pc = "building"
    /\ stream = <<>> /\ iter = <<>> /\ chunks = <<>> /\ sections = <<>>
    /\ line = "" /\ parsed_line = NoParse
    /\ doc = Doc("", <<>>, FALSE) /\ removed = {}
    /\ omit_args = NoCall /\ omit_result = FALSE

\* the variables a builder step leaves alone
builder_unchanged ==
    UNCHANGED <<stream, iter, chunks, sections, line, parsed_line, doc, removed, input,
                omit_args, omit_result>>

\* ctx.next()?
BuilderNext ==
    /\ pc = "building"
    /\ Ok(Next_(builder))
    /\ builder' = Next_(builder)
    /\ UNCHANGED <<pc, gen, filtered>>
    /\ builder_unchanged

\* the state after a builder method returned c, or panicked
BuilderCalled(c) ==
    /\ gen < MaxOps
    /\ builder' = c
    /\ gen' = gen + 1
    /\ pc' = IF Ok(c) THEN "building" ELSE "panicked"
    /\ UNCHANGED filtered
    /\ builder_unchanged

BuilderWriteUntilCurrentToken ==
    pc = "building" /\ BuilderCalled(WriteUntilCurrentToken(builder))

BuilderWriteUntilLastToken ==
    pc = "building" /\ BuilderCalled(WriteUntilLastToken(builder))

BuilderSkipUntilLastToken ==
    pc = "building" /\ BuilderCalled(SkipUntilLastToken(builder))

BuilderSkipUntilCurrentToken ==
    pc = "building" /\ BuilderCalled(SkipUntilCurrentToken(builder))

BuilderAppendStr ==
    pc = "building" /\ \E lit \in BuilderLiterals : BuilderCalled(AppendStr(builder, lit))

\* ctx.finish()
BuilderFinish ==
    /\ pc = "building"
    /\ \E f \in {Finish(builder)} :
          /\ filtered' = Returned(f.status, "finish", f.kind, f.text, f.ctx)
          /\ pc' = IF f.status = "ok" THEN "finished" ELSE "panicked"
    /\ UNCHANGED <<builder, gen>>
    /\ builder_unchanged

NextBuilder ==
    \/ BuilderNext
    \/ BuilderWriteUntilCurrentToken \/ BuilderWriteUntilLastToken
    \/ BuilderSkipUntilLastToken \/ BuilderSkipUntilCurrentToken
    \/ BuilderAppendStr
    \/ BuilderFinish

SpecBuilder == InitBuilder /\ [][NextBuilder]_vars

\* ------------------------------------------- documents with a version
\* The two passes on documents that hold a serializedVersion, at the top
\* level and nested, before and after the fields the rules edit.

\* the values of serializedVersion: <<form, parts>>
VersionForms ==
    { <<"scalar", <<<<v>>>> >> : v \in {"1", "2", "3", "5", "6", "02"} }
    \cup { <<"elided", <<<<>>>> >>, <<"flowMap", Ref("0")>> }

VersionFields == { Field("serializedVersion", v[1], v[2]) : v \in VersionForms }

VersionDocs ==
    { Doc("MonoBehaviour", pre \o <<v>> \o post, TRUE) :
          pre \in { <<>>,
                    <<Field("m_Script", "flowMap", OrdinaryScript)>>,
                    <<Field("m_Script", "flowMap", RefFull("229740497", SentinelGuid, "3", ""))>>,
                    <<Field("fallbackStatus", "scalar", <<<<"1">>>>)>> },
          v \in VersionFields,
          post \in { <<>>, <<Field("fallbackStatus", "scalar", <<<<"1">>>>)>> } }
    \cup { Doc("PrefabInstance", pre \o <<v>> \o post, TRUE) :
          pre \in { <<>>,
                    <<Field("m_Modification", "mods", <<<<"fallbackStatus", "1", "0", "">>>>)>> },
          v \in VersionFields,
          post \in { <<>>,
                     <<Field("m_Modification", "mods", <<<<"m_Name", "x", "0", "">>>>)>> } }
    \cup { Doc("GameObject", pre \o <<v>> \o post, TRUE) :
          pre \in { <<>>, <<Field("m_Component", "comps", <<<<"1", "">>, <<"2", "">>>>)>> },
          v \in VersionFields,
          post \in { <<>>, <<Field("m_Component", "comps", <<<<"2", "">>, <<"1", "">>>>)>> } }
    \cup { Doc(t, <<Field("m_Nested", "flowMap", <<<<"">>, <<"serializedVersion", "3">>>>)>>,
               TRUE) :
          t \in {"MonoBehaviour", "PrefabInstance", "GameObject"} }

InitVersion ==
    /\ doc \in VersionDocs
    /\ removed \in {{}, {1}}
    /\ input = Render(doc)
    /\ filtered = NoResult
    /\ pc = "start"
    /\ gen = 0
    /\ omit_args = NoCall
    /\ omit_result = FALSE
    /\ StreamIdle

SpecVersion == InitVersion /\ [][Next]_vars

\* ------------------------------------------------- App::run of clean
\* The driver of clean/mod.rs on a whole input: the first chunk is printed,
\* every other chunk is printed as its heading line and its parsed body.

MaxLines == 3

\* the lines an input is made of
InputLines ==
    { <<"%YAML 1.1", NL>>,
      <<"--- !u!4 &1", NL>>,
      <<"---">>,
      <<"x", NL>>,
      <<"Transform", ":", NL, IND, "m_Father", ":", SP, "{", "fileID", ":", SP, "0", "}", NL>> }

\* App::parse_one: the heading and the dispatch of main.rs filter_yaml, with
\* a body of a type without a rule returned as it is
ParseOne(yaml) ==
    IF yaml = <<>> THEN Failed(Panic(ContextNew(yaml)))
    ELSE With(Heading(ContextNew(yaml)), LAMBDA h :
             IF ~Ok(h) THEN Failed(h)
             ELSE IF h.str \in {"MonoBehaviour", "PrefabInstance", "RenderSettings"}
                  THEN MainFilterYaml(yaml)
                  ELSE Returned("ok", "passthrough", "Borrowed", yaml, h))

\* what App::run returned and what it had printed by then
Ran(status, out) ==
    [status |-> status, via |-> "run", kind |-> "None", text |-> out,
     log |-> <<>>, result |-> <<>>, printed |-> 0]

RECURSIVE RunFrom(_, _, _)
\* the while loop of App::run over the items after the first
RunFrom(items, k, out) ==
    IF k > Len(items) THEN Ran("ok", out)
    ELSE With(ParseOne(items[k][2]), LAMBDA r :
             IF r.status # "ok" THEN Ran(r.status, out \o items[k][1])
             ELSE RunFrom(items, k + 1, out \o items[k][1] \o r.text))

\* App::run on the text read from stdin: iter.next().unwrap() panics when
\* there is no first item
AppRun(yaml) ==
    With(Collect(yaml), LAMBDA items :
        IF items = <<>> THEN Ran("panic", <<>>)
        ELSE RunFrom(items, 2, items[1][1] \o items[1][2]))

InitRun ==
    /\ stream \in { Join(q) : q \in SeqsUpTo(InputLines, MaxLines) }
    /\ iter = stream
    /\ chunks = <<>>
    /\ sections = <<>>
    /\ filtered = NoResult
    /\ pc = "stdin"
    /\ line = "" /\ parsed_line = NoParse /\ builder = NoResult
    /\ doc = Doc("", <<>>, FALSE) /\ removed = {} /\ input = <<>>
    /\ gen = 0 /\ omit_args = NoCall /\ omit_result = FALSE

\* App::run
Run ==
    /\ pc = "stdin"
    /\ chunks' = Collect(stream)
    /\ iter' = <<>>
    /\ filtered' = AppRun(stream)
    /\ pc' = "ran"
    /\ UNCHANGED <<stream, sections, line, parsed_line, builder>>
    /\ UNCHANGED <<doc, removed, input, gen, omit_args, omit_result>>

NextRun == Run

SpecRun == InitRun /\ [][NextRun]_vars

\* ------------------------------------------- baseAnimationLayers
\* The schema pass on MonoBehaviours whose baseAnimationLayers elements hold
\* a mask in every place and form, and other keys with nested values.

\* the entries of an element: <<key, text of the value>>
MaskRef(fid) == <<"mask", FlowMapText(Ref(fid), <<IND>>)>>
MaskFull == <<"mask", FlowMapText(RefFull("31", "abc", "2", ""), <<IND>>)>>
MaskWrapped == <<"mask", FlowMapText(RefFull("31", "abc", "2", "wrap"), <<IND>>)>>
MaskScalar == <<"mask", <<SP, "5">>>>
MaskElided == <<"mask", <<>>>>
IsEnabled == <<"isEnabled", <<SP, "1">>>>
IsDefault == <<"isDefault", <<SP, "0">>>>
InnerFlow == <<"state", <<SP, "{", "mask", ":", SP, "1", ",", SP, "type", ":", SP, "2", "}">>>>
InnerBlock == <<"animatorController", <<NL, IND, IND, IND, "mask", ":", SP, "2",
                                        NL, IND, IND, IND, "type", ":", SP, "3">>>>

LayerElements ==
    { <<IsEnabled, MaskRef("11"), IsDefault>>,
      <<MaskFull>>,
      <<IsEnabled, MaskWrapped>>,
      <<InnerFlow, MaskRef("0")>>,
      <<MaskRef("12"), InnerBlock>>,
      <<InnerBlock, IsDefault>>,
      <<MaskScalar, IsDefault>>,
      <<IsEnabled, MaskElided>>,
      <<IsEnabled>> }

LayerDocs ==
    { Doc("MonoBehaviour",
          <<Field("m_Script", "flowMap", OrdinaryScript),
            Field("baseAnimationLayers", "elements", els)>> \o post, eol) :
          els \in SeqsUpTo(LayerElements, MaxSeqLen) \ {<<>>},
          post \in { <<>>, <<Field("m_Name", "scalar", <<<<"x">>>>)>> },
          eol \in BOOLEAN }

InitLayers ==
    /\ doc \in LayerDocs
    /\ removed = {}
    /\ input = Render(doc)
    /\ filtered = NoResult
    /\ pc = "start"
    /\ gen = 0
    /\ omit_args = NoCall
    /\ omit_result = FALSE
    /\ StreamIdle

SpecLayers == InitLayers /\ [][Next]_vars

\* --------------------------------------------------------- install.rs
\* update_attributes_file over the lines of a .gitattributes file.  A line
\* and the result are strings; die! ends the process (status "die").

FILE_ATTRIBUTES == "filter=vrc eol=lf text=auto"

FILES_CONTROLLED_BY_THIS_TOOL == <<"*.asset", "*.prefab", "*.unity">>

\* char::is_ascii_whitespace
IsAsciiWhitespace(ch) == ch \in {" ", "\t", "\n", "\r", "\f"}

RECURSIVE FindNonWs(_, _), FindWs(_, _)
\* s.find(|c| !c.is_ascii_whitespace()), searched from offset k
FindNonWs(s, k) ==
    IF k >= Len(s) THEN None
    ELSE IF ~IsAsciiWhitespace(SubSeq(s, k + 1, k + 1)) THEN Some(k)
    ELSE FindNonWs(s, k + 1)

\* s.find(|c| c.is_ascii_whitespace()), searched from offset k
FindWs(s, k) ==
    IF k >= Len(s) THEN None
    ELSE IF IsAsciiWhitespace(SubSeq(s, k + 1, k + 1)) THEN Some(k)
    ELSE FindWs(s, k + 1)

\* the string from offset k on
StrFrom(s, k) == SubSeq(s, k + 1, Len(s))

\* the string up to offset k
StrTo(s, k) == SubSeq(s, 1, k)

\* str::starts_with on strings
StrStartsWith(s, p) == Len(s) >= Len(p) /\ SubSeq(s, 1, Len(p)) = p

\* the flags of add_attributes before its loop
NoneFound ==
    [filter_found |-> FALSE, text_found |-> FALSE, eol_found |-> FALSE,
     unity_sort_found |-> FALSE, die |-> FALSE]

\* the branches of the loop of add_attributes on one attribute
AttrSeen(found, attr) ==
    IF attr = "-text" THEN [found EXCEPT !.die = TRUE]
    ELSE IF attr = "text" \/ StrStartsWith(attr, "text=") THEN [found EXCEPT !.text_found = TRUE]
    ELSE IF StrStartsWith(attr, "filter=")
         THEN IF attr # "filter=vrc" THEN [found EXCEPT !.die = TRUE]
              ELSE [found EXCEPT !.filter_found = TRUE]
    ELSE IF StrStartsWith(attr, "eol=") THEN [found EXCEPT !.eol_found = TRUE]
    ELSE IF attr = "unity-sort" \/ StrStartsWith(attr, "unity-sort=")
         THEN [found EXCEPT !.unity_sort_found = TRUE]
    ELSE found

RECURSIVE AttrLoop(_, _)
\* the loop of add_attributes over what is left of attrs
AttrLoop(attrs, found) ==
    IF found.die THEN found
    ELSE With(FindNonWs(attrs, 0), LAMBDA non_ws :
             IF non_ws = None THEN found
             ELSE With(StrFrom(attrs, non_ws[1]), LAMBDA rest :
                  With(FindWs(rest, 0), LAMBDA ws :
                       IF ws # None
                       THEN AttrLoop(StrFrom(rest, ws[1]), AttrSeen(found, StrTo(rest, ws[1])))
                       ELSE AttrLoop("", AttrSeen(found, rest)))))

\* append_attr
AppendAttr(result, attr) ==
    (IF result # "" /\ IsAsciiWhitespace(SubSeq(result, Len(result), Len(result)))
     THEN result ELSE result \o " ") \o attr

\* the result of a call: the string returned, or the process ended
Returns(text) == [status |-> "ok", text |-> text]
Dies == [status |-> "die", text |-> ""]

\* add_attributes
AddAttributes(attrs, set_unity_sort) ==
    IF attrs = "" THEN Returns(" " \o FILE_ATTRIBUTES)
    ELSE IF FindNonWs(attrs, 0) = None THEN Returns(attrs \o FILE_ATTRIBUTES)
    ELSE With(AttrLoop(attrs, NoneFound), LAMBDA found :
        IF found.die THEN Dies
        ELSE With(IF found.filter_found THEN attrs ELSE AppendAttr(attrs, "filter=vrc"),
                  LAMBDA r1 :
             With(IF found.text_found THEN r1 ELSE AppendAttr(r1, "text"), LAMBDA r2 :
             With(IF found.eol_found THEN r2 ELSE AppendAttr(r2, "eol=lf"), LAMBDA r3 :
                  Returns(IF ~found.unity_sort_found /\ set_unity_sort
                          THEN AppendAttr(r3, "unity-sort") ELSE r3)))))

\* FILES_CONTROLLED_BY_THIS_TOOL.contains(&name)
IsControlled(name) ==
    \E i \in 1..Len(FILES_CONTROLLED_BY_THIS_TOOL) : FILES_CONTROLLED_BY_THIS_TOOL[i] = name

\* the name of the line when it is a line for a controlled pattern: the
\* offsets of the name in the line, or None
ControlledName(l) ==
    With(FindNonWs(l, 0), LAMBDA first_non_ws :
        IF first_non_ws = None THEN None
        ELSE With(StrFrom(l, first_non_ws[1]), LAMBDA trimmed :
                 IF SubSeq(trimmed, 1, 1) = "#" THEN None
                 ELSE With(FindWs(trimmed, 0), LAMBDA ws :
                      With(IF ws = None THEN Len(trimmed) ELSE ws[1], LAMBDA name_end :
                           IF IsControlled(StrTo(trimmed, name_end))
                           THEN Some([first_non_ws |-> first_non_ws[1], name_end |-> name_end,
                                      name |-> StrTo(trimmed, name_end)])
                           ELSE None))))

RECURSIVE UpdateLines(_, _, _, _)
\* the first loop of update_attributes_file from line k on
UpdateLines(lines, k, result, added) ==
    IF k > Len(lines) THEN [status |-> "ok", text |-> result, added |-> added]
    ELSE With(ControlledName(lines[k]), LAMBDA n :
             IF n = None
             THEN UpdateLines(lines, k + 1, result \o lines[k] \o "\n", added)
             ELSE With(AddAttributes(StrFrom(lines[k], n[1].first_non_ws + n[1].name_end),
                                     n[1].name = "*.asset"),
                       LAMBDA a :
                          IF a.status # "ok" THEN [status |-> a.status, text |-> "", added |-> added]
                          ELSE UpdateLines(lines, k + 1,
                                           result \o StrTo(lines[k], n[1].first_non_ws)
                                           \o n[1].name \o a.text \o "\n",
                                           added \cup {n[1].name})))

RECURSIVE AddMissing(_, _, _)
\* the second loop of update_attributes_file from name i on
AddMissing(i, result, added) ==
    IF i > Len(FILES_CONTROLLED_BY_THIS_TOOL) THEN result
    ELSE With(FILES_CONTROLLED_BY_THIS_TOOL[i], LAMBDA name :
             AddMissing(i + 1,
                        IF name \in added THEN result
                        ELSE result \o name \o " " \o FILE_ATTRIBUTES
                             \o (IF name = "*.asset" THEN " unity-sort" ELSE "") \o "\n",
                        added))

\* update_attributes_file
UpdateAttributesFile(lines) ==
    With(UpdateLines(lines, 1, "", {}), LAMBDA u :
        IF u.status # "ok" THEN Dies
        ELSE Returns(AddMissing(1, u.text, u.added)))

\* the offsets at which a line of the text ends: its line feeds and, when the
\* text does not end with one, its end
LineEnds(s) ==
    { i \in 1..Len(s) : SubSeq(s, i, i) = "\n" }
        \cup (IF Len(s) > 0 /\ SubSeq(s, Len(s), Len(s)) # "\n" THEN {Len(s) + 1} ELSE {})

\* str::lines: the lines of the text without their line feeds
StrLines(s) ==
    LET ends == LineEnds(s)
        nth(j) == CHOOSE p \in ends : Cardinality({q \in ends : q < p}) = j - 1
        start(j) == IF j = 1 THEN 1 ELSE nth(j - 1) + 1
    IN  [j \in 1..Cardinality(ends) |-> SubSeq(s, start(j), nth(j) - 1)]

MaxAttrLines == 2

\* the lines of a .gitattributes file
AttributeLines ==
    { "", "# unity", "#*.asset x", "* text=auto", "*.png binary", "*.assets text",
      "*.asset", "*.asset  ", "*.asset  eol=lf", "*.asset unity-sort text",
      "*.prefab text eol=lf   ", "*.prefab -text", "*.prefab filter=lfs",
      "  *.unity\tfilter=vrc", "*.unity filter=vrc eol=crlf text=auto" }

InitInstall ==
    /\ chunks \in SeqsUpTo(AttributeLines, MaxAttrLines)
    /\ line = ""
    /\ parsed_line = NoParse
    /\ pc = "attributes"
    /\ gen = 0
    /\ stream = <<>> /\ iter = <<>> /\ sections = <<>> /\ builder = NoResult
    /\ doc = Doc("", <<>>, FALSE) /\ removed = {} /\ input = <<>>
    /\ filtered = NoResult /\ omit_args = NoCall /\ omit_result = FALSE

\* update_attributes_file(attr_file.lines()): chunks are the lines, line the
\* string returned
UpdateAttributes ==
    /\ pc = "attributes"
    /\ \E r \in {UpdateAttributesFile(chunks)} :
          /\ line' = r.text
          /\ pc' = IF r.status = "ok" THEN "updated" ELSE "died"
    /\ UNCHANGED <<stream, iter, chunks, sections, parsed_line, builder>>
    /\ UNCHANGED rewrite_vars

\* install is run again on the file it wrote: iter keeps the lines of the
\* run before
InstallAgain ==
    /\ pc = "updated"
    /\ gen < MaxPasses
    /\ iter' = chunks
    /\ chunks' = StrLines(line)
    /\ pc' = "attributes"
    /\ gen' = gen + 1
    /\ UNCHANGED <<stream, sections, line, parsed_line, builder>>
    /\ UNCHANGED <<doc, removed, input, filtered, omit_args, omit_result>>

NextInstall == UpdateAttributes \/ InstallAgain

SpecInstall == InitInstall /\ [][NextInstall]_vars

\* ------------------------------------------------- the cursor on one value
\* The cursor of a Context is brought to the value of the first key of a
\* document (the heading of filter_yaml), and peek(), next(),
\* skip_next_value(), mapping() and sequence() are called on it.  The token
\* source may end early: gen is the number of tokens it withholds at the end.
\* line is the method called last ("next after peek" for a next() that found
\* the lookahead slot full).

\* the values a key may have, from the colon of the key to the end of the value
ScalarValue == <<SP, "1", NL>>
ElidedValue == <<NL>>
FlowMapValue == <<SP, "{", "a", ":", SP, "1", ",", SP, "b", ":", SP, "2", "}", NL>>
FlowMapEmptyValue == <<SP, "{", "}", NL>>
FlowMapElidedValue == <<SP, "{", "a", ":", SP, ",", SP, "b", ":", SP, "1", "}", NL>>
FlowMapNestedValue == <<SP, "{", "a", ":", SP, "{", "b", ":", SP, "1", "}", "}", NL>>
FlowMapOpenValue == <<SP, "{", "a", ":", SP, "1", NL>>
FlowSeqEmptyValue == <<SP, "[", "]", NL>>
FlowSeqValue == <<SP, "[", "1", ",", SP, "2", "]", NL>>
FlowSeqOfMapsValue ==
    <<SP, "[", "{", "mask", ":", SP, "1", "}", ",", SP, "{", "x", ":", SP, "2", "}", "]", NL>>
BlockMapValue == <<NL, IND, "a", ":", SP, "1", NL, IND, "b", ":", NL>>
BlockMapNestedValue ==
    <<NL, IND, "a", ":", NL, IND, IND, "b", ":", SP, "{", "c", ":", SP, "1", "}", NL,
      IND, "d", ":", NL, IND, "-", SP, "1", NL>>
BlockSeqValue == <<NL, "-", SP, "1", NL, "-", SP, "2", NL>>
BlockSeqOfMapsValue ==
    <<NL, "-", SP, "mask", ":", SP, "{", "fileID", ":", SP, "1", "}", NL, IND, "x", ":", NL,
      IND, "-", SP, "1", NL, "-", SP, "y", ":", SP, "2", NL>>
BlockSeqIndentedValue == <<NL, IND, "-", SP, "1", NL, IND, "-", SP, "2", NL>>
ComponentsValue ==
    <<NL, "-", SP, "component", ":", SP, "{", "fileID", ":", SP, "1", "}", NL,
      "-", SP, "component", ":", SP, "{", "fileID", ":", SP, "2", "}", NL>>
ScriptValue ==
    <<NL, IND, "m_Script", ":", SP, "{", "fileID", ":", SP, "11500000", ",", SP,
      "guid", ":", SP, "0123", ",", SP, "type", ":", SP, "3", "}", NL,
      IND, "x", ":", SP, "1", NL>>
PipelineSaverValue ==
    <<NL, IND, "m_Script", ":", SP, "{", "fileID", ":", SP, "229740497", ",", SP,
      "guid", ":", SP, "4ecd63eff847044b68db9453ce219299", ",", SP, "type", ":", SP, "3", "}", NL,
      IND, "x", ":", SP, "{", "a", ":", SP, "1", "}", NL>>

CursorValues ==
    { ScalarValue, ElidedValue, FlowMapValue, FlowMapEmptyValue, FlowMapElidedValue,
      FlowMapNestedValue, FlowMapOpenValue, FlowSeqEmptyValue, FlowSeqValue,
      FlowSeqOfMapsValue, BlockMapValue, BlockMapNestedValue, BlockSeqValue,
      BlockSeqOfMapsValue, BlockSeqIndentedValue, ComponentsValue, ScriptValue,
      PipelineSaverValue }

\* what follows the value: another key of the document, or its end
CursorTails == { <<"z", ":", SP, "1", NL>>, <<>> }

CursorDocs == { <<"k", ":">> \o v \o t : v \in CursorValues, t \in CursorTails }

\* the closures handed to mapping() and to sequence()
MappingVisitors == {"skip", "mono_behaviour"}
SequenceVisitors == {"component", "base_animation_layer"}

InitCursor ==
    /\ input \in CursorDocs
    /\ gen \in 0..Len(Scan(input))
    /\ builder = [ContextNew(input) EXCEPT !.toks = SubSeq(@, 1, Len(@) - gen)]
    /\ filtered = NoResult
    /\ pc = "start"
    /\ stream = <<>> /\ iter = <<>> /\ chunks = <<>> /\ sections = <<>>
    /\ line = "" /\ parsed_line = NoParse
    /\ doc = Doc("", <<>>, FALSE) /\ removed = {}
    /\ omit_args = NoCall /\ omit_result = FALSE

\* the variables a call on the cursor leaves alone
cursor_unchanged ==
    UNCHANGED <<stream, iter, chunks, sections, parsed_line, doc, removed, input,
                filtered, gen, omit_args, omit_result>>

\* the heading of filter_yaml brings the cursor to the value of the first key
CursorHeading ==
    /\ pc = "start"
    /\ \E c \in {Heading(builder)} :
          /\ builder' = c
          /\ pc' = IF Ok(c) THEN "value" ELSE "failed"
    /\ line' = "heading"
    /\ cursor_unchanged

\* ctx.peek()
CursorPeek ==
    /\ pc \in {"value", "after"}
    /\ Ok(builder)
    /\ builder' = Peek(builder)
    /\ line' = "peek"
    /\ pc' = pc
    /\ cursor_unchanged

\* ctx.next(), once the value is behind
CursorNext ==
    /\ pc = "after"
    /\ Ok(builder)
    /\ builder' = Next_(builder)
    /\ line' = IF builder.next_token = None THEN "next" ELSE "next after peek"
    /\ pc' = pc
    /\ cursor_unchanged

\* ctx.skip_next_value()
CursorSkipNextValue ==
    /\ pc = "value"
    /\ Ok(builder)
    /\ builder' = SkipNextValue(builder)
    /\ line' = "skip_next_value"
    /\ pc' = "after"
    /\ cursor_unchanged

\* ctx.mapping(visitor)
CursorMapping ==
    /\ pc = "value"
    /\ Ok(builder)
    /\ \E v \in MappingVisitors : builder' = Mapping(builder, v)
    /\ line' = "mapping"
    /\ pc' = "after"
    /\ cursor_unchanged

\* ctx.sequence(visitor)
CursorSequence ==
    /\ pc = "value"
    /\ Ok(builder)
    /\ \E v \in SequenceVisitors : builder' = Sequence(builder, v)
    /\ line' = "sequence"
    /\ pc' = "after"
    /\ cursor_unchanged

NextCursor ==
    \/ CursorHeading
    \/ CursorPeek
    \/ CursorNext
    \/ CursorSkipNextValue
    \/ CursorMapping
    \/ CursorSequence

SpecCursor == InitCursor /\ [][NextCursor]_vars

\* --------------------------------------------- the methods of the cursor
\* A Context over a document is moved by next() to any of its tokens; there
\* one of next_scalar(), parse_object_reference(), mapping(), sequence() and
\* the write and skip methods is called.  iter holds the Context as it was
\* before the call, line the method called.

\* a flow mapping of the pairs <<key, value>>
RECURSIVE FlowPairs(_)
FlowPairs(pairs) ==
    IF pairs = <<>> THEN <<>>
    ELSE <<pairs[1][1], ":", SP>> \o (IF pairs[1][2] = "" THEN <<>> ELSE <<pairs[1][2]>>)
         \o (IF Len(pairs) = 1 THEN <<>> ELSE <<",", SP>> \o FlowPairs(Tail(pairs)))

FlowMapOf(pairs) == <<SP, "{">> \o FlowPairs(pairs) \o <<"}", NL>>

\* the values of fileID, guid and type in a reference, "none" where the key
\* is left out
FileIdTexts == {"none", "0", "5", "-7", "x", ""}
GuidTexts == {"none", "abc"}
TypeTexts == {"none", "3"}
OtherKeys == {"none", "other"}

PairOf(key, text) == IF text = "none" THEN <<>> ELSE << <<key, text>> >>

\* the references: the keys in the order of the host format, or fileID last
ReferenceValue(f, g, t, o, first) ==
    FlowMapOf(IF first
              THEN PairOf("fileID", f) \o PairOf("guid", g) \o PairOf("type", t)
                   \o PairOf("other", o)
              ELSE PairOf("other", o) \o PairOf("guid", g) \o PairOf("type", t)
                   \o PairOf("fileID", f))

ReferenceValues ==
    { ReferenceValue(f, g, t, o, first) :
        f \in FileIdTexts, g \in GuidTexts, t \in TypeTexts, o \in OtherKeys,
        first \in BOOLEAN }

\* the document whose first value is v
ContextDoc(v) == <<"k", ":">> \o v \o <<"z", ":", SP, "1", NL>>

\* mappings and sequences with and without a key or an element `stop`
StopValues ==
    { FlowMapOf(<< <<"a", "1">>, <<"stop", "2">>, <<"b", "3">> >>),
      FlowMapOf(<< <<"stop", "2">>, <<"b", "3">> >>),
      FlowMapOf(<< <<"a", "1">>, <<"stop", "">> >>),
      FlowMapOf(<< <<"a", "1">>, <<"b", "3">> >>),
      <<NL, IND, "a", ":", SP, "1", NL, IND, "stop", ":", SP, "2", NL, IND, "b", ":", SP, "3", NL>>,
      <<NL, IND, "a", ":", SP, "1", NL, IND, "b", ":", NL>>,
      <<SP, "[", "1", ",", SP, "stop", ",", SP, "3", "]", NL>>,
      <<SP, "[", "stop", "]", NL>>,
      <<SP, "[", "1", ",", SP, "3", "]", NL>>,
      <<SP, "[", "]", NL>>,
      <<NL, "-", SP, "1", NL, "-", SP, "stop", NL, "-", SP, "3", NL>>,
      <<NL, "-", SP, "1", NL, "-", SP, "3", NL>>,
      ScalarValue, ElidedValue, PipelineSaverValue, ScriptValue }

ContextDocs == { ContextDoc(v) : v \in ReferenceValues \cup StopValues }

InitContext ==
    /\ input \in ContextDocs
    /\ builder = ContextNew(input)
    /\ filtered = NoResult
    /\ gen = 0
    /\ pc = "cursor"
    /\ stream = <<>> /\ iter = <<>> /\ chunks = <<>> /\ sections = <<>>
    /\ line = "" /\ parsed_line = NoParse
    /\ doc = Doc("", <<>>, FALSE) /\ removed = {}
    /\ omit_args = NoCall /\ omit_result = FALSE

\* the variables a call leaves alone
context_unchanged ==
    UNCHANGED <<stream, chunks, sections, parsed_line, doc, removed, input,
                filtered, gen, omit_args, omit_result>>

\* a method is called on the Context and returns the Context c
Called(method, c, then) ==
    /\ builder' = c
    /\ iter' = <<builder>>
    /\ line' = method
    /\ pc' = then
    /\ context_unchanged

\* ctx.next()
CallNext ==
    /\ pc = "cursor" /\ Ok(builder)
    /\ Called("next", Next_(builder), "cursor")

\* ctx.peek()
CallPeek ==
    /\ pc = "cursor" /\ Ok(builder)
    /\ Called("peek", Peek(builder), "cursor")

\* ctx.next_scalar()
CallNextScalar ==
    /\ pc = "cursor" /\ Ok(builder)
    /\ Called("next_scalar", NextScalar(builder), "called")

\* ctx.parse_object_reference()
CallParseObjectReference ==
    /\ pc = "cursor" /\ Ok(builder)
    /\ Called("parse_object_reference", ParseObjectReference(builder), "called")

\* ctx.mapping(closure)
CallMapping ==
    /\ pc = "cursor" /\ Ok(builder)
    /\ \E v \in {"stop_key", "skip", "mono_behaviour"} :
           Called("mapping " \o v, Mapping(builder, v), "called")

\* ctx.sequence(closure)
CallSequence ==
    /\ pc = "cursor" /\ Ok(builder)
    /\ Called("sequence stop_item", Sequence(builder, "stop_item"), "called")

\* ctx.write_until_current_token()
CallWriteUntilCurrentToken ==
    /\ pc = "cursor" /\ Ok(builder)
    /\ Called("write_until_current_token", WriteUntilCurrentToken(builder), "called")

\* ctx.write_until_last_token()
CallWriteUntilLastToken ==
    /\ pc = "cursor" /\ Ok(builder)
    /\ Called("write_until_last_token", WriteUntilLastToken(builder), "called")

\* ctx.skip_until_current_token()
CallSkipUntilCurrentToken ==
    /\ pc = "cursor" /\ Ok(builder)
    /\ Called("skip_until_current_token", SkipUntilCurrentToken(builder), "called")

\* ctx.skip_until_last_token()
CallSkipUntilLastToken ==
    /\ pc = "cursor" /\ Ok(builder)
    /\ Called("skip_until_last_token", SkipUntilLastToken(builder), "called")

NextContext ==
    \/ CallNext
    \/ CallPeek
    \/ CallNextScalar
    \/ CallParseObjectReference
    \/ CallMapping
    \/ CallSequence
    \/ CallWriteUntilCurrentToken
    \/ CallWriteUntilLastToken
    \/ CallSkipUntilCurrentToken
    \/ CallSkipUntilLastToken

SpecContext == InitContext /\ [][NextContext]_vars

\* ------------------------------------------------- git check-attr -z
\* `git check-attr -z` writes, for every path and attribute asked for, the
\* path, the attribute and its value, each ended by a NUL.  stream holds the
\* output, gen the index of GitCheckAttrResult, chunks the items it has
\* yielded, sections the records the output was written from.

NUL == "\\0"

MaxRecordsOut == 2

\* the fields of a record: a name of one and of two characters
RecordFields == { <<"a">>, <<"b", "c">> }

\* the records git reports
AttrRecords == RecordFields \X RecordFields \X RecordFields

RECURSIVE CheckAttrOutput(_)
\* the output for the records q
CheckAttrOutput(q) ==
    IF q = <<>> THEN <<>>
    ELSE q[1][1] \o <<NUL>> \o q[1][2] \o <<NUL>> \o q[1][3] \o <<NUL>>
         \o CheckAttrOutput(Tail(q))

\* str[from..].find('\0'): the offset of the first NUL at or after from,
\* counted from there
FindNul(str, from) ==
    LET hits == {k \in (from + 1)..Len(str) : str[k] = NUL}
    IN  IF hits = {} THEN None
        ELSE Some((CHOOSE k \in hits : \A m \in hits : k <= m) - 1 - from)

\* GitCheckAttrResult::next: the item, the index it leaves, and whether an
\* expect("no \\0 found") failed
GitCheckAttrResultNext(str, index) ==
    IF Len(str) = index THEN [item |-> None, index |-> index, err |-> "ok"]
    ELSE LET begin == index
             f1 == FindNul(str, begin)
         IN  IF f1 = None THEN [item |-> None, index |-> index, err |-> "panic"]
             ELSE LET first_sep == begin + f1[1]
                      f2 == FindNul(str, first_sep + 1)
                  IN  IF f2 = None THEN [item |-> None, index |-> first_sep + 1, err |-> "panic"]
                      ELSE LET second_sep == first_sep + 1 + f2[1]
                               f3 == FindNul(str, second_sep + 1)
                           IN  IF f3 = None
                               THEN [item |-> None, index |-> second_sep + 1, err |-> "panic"]
                               ELSE LET third_sep == second_sep + 1 + f3[1]
                                    IN  [item |-> Some(<<Slice(str, begin, first_sep),
                                                         Slice(str, first_sep + 1, second_sep),
                                                         Slice(str, second_sep + 1, third_sep)>>),
                                         index |-> third_sep, err |-> "ok"]

InitCheckAttr ==
    /\ sections \in SeqsUpTo(AttrRecords, MaxRecordsOut)
    /\ stream = CheckAttrOutput(sections)
    /\ gen = 0
    /\ chunks = <<>>
    /\ pc = "check_attr"
    /\ iter = <<>> /\ line = "" /\ parsed_line = NoParse /\ builder = NoResult
    /\ doc = Doc("", <<>>, FALSE) /\ removed = {} /\ input = <<>>
    /\ filtered = NoResult /\ omit_args = NoCall /\ omit_result = FALSE

\* one call of GitCheckAttrResult::next by the consumer of the iterator
CheckAttrNext ==
    /\ pc = "check_attr"
    /\ \E r \in {GitCheckAttrResultNext(stream, gen)} :
           /\ gen' = r.index
           /\ chunks' = IF r.item = None THEN chunks ELSE Append(chunks, r.item[1])
           /\ pc' = IF r.err # "ok" THEN "panicked"
                    ELSE IF r.item = None THEN "check_attr_done"
                    ELSE pc
    /\ UNCHANGED <<stream, sections, iter, line, parsed_line, builder, doc, removed,
                   input, filtered, omit_args, omit_result>>

NextCheckAttr == CheckAttrNext

SpecCheckAttr == InitCheckAttr /\ [][NextCheckAttr]_vars

\* -------------------------------------------------------------- smudge
\* smudge::App::run copies stdin to stdout through a buffer.  stream holds
\* the bytes of stdin, gen how many of them have been read, iter the bytes of
\* the buffer the last read filled (&buf[..size]), chunks the bytes stdout
\* has accepted, line the outcome of the last call.

\* the length of the standard input and of the buffer (8 * 1024 in the code)
MaxInputLen == 3
MaxBufLen == 2

Bytes == {"a", "b"}

Min(a, b) == IF a < b THEN a ELSE b

InitSmudge ==
    /\ stream \in SeqsUpTo(Bytes, MaxInputLen)
    /\ gen = 0
    /\ iter = <<>>
    /\ chunks = <<>>
    /\ pc = "read"
    /\ line = ""
    /\ sections = <<>> /\ parsed_line = NoParse /\ builder = NoResult
    /\ doc = Doc("", <<>>, FALSE) /\ removed = {} /\ input = <<>>
    /\ filtered = NoResult /\ omit_args = NoCall /\ omit_result = FALSE

smudge_unchanged ==
    UNCHANGED <<stream, sections, parsed_line, builder, doc, removed, input,
                filtered, omit_args, omit_result>>

\* stdin.read(&mut buf): Ok(size) with any size from 1 to what is there and
\* fits, Ok(0) at the end of the input, Err(Interrupted), or another error
SmudgeRead ==
    /\ pc = "read"
    /\ \/ \E size \in 1..Min(MaxBufLen, Len(stream) - gen) :
             /\ iter' = SubSeq(stream, gen + 1, gen + size)
             /\ gen' = gen + size
             /\ line' = "read"
             /\ pc' = "write"
       \/ /\ gen = Len(stream)
          /\ line' = "eof"
          /\ pc' = "done"
          /\ UNCHANGED <<iter, gen>>
       \/ /\ line' = "interrupted"
          /\ pc' = "read"
          /\ UNCHANGED <<iter, gen>>
       \/ /\ line' = "read error"
          /\ pc' = "failed"
          /\ UNCHANGED <<iter, gen>>
    /\ UNCHANGED chunks
    /\ smudge_unchanged

\* stdout.write(&buf[..size])?: Ok(n) with any n from 1 to size, or an error;
\* the n is not looked at
SmudgeWrite ==
    /\ pc = "write"
    /\ \/ \E n \in 1..Len(iter) :
             /\ chunks' = chunks \o SubSeq(iter, 1, n)
             /\ line' = IF n < Len(iter) THEN "partial write" ELSE "write"
             /\ pc' = "read"
       \/ /\ line' = "write error"
          /\ pc' = "failed"
          /\ UNCHANGED chunks
    /\ UNCHANGED <<iter, gen>>
    /\ smudge_unchanged

NextSmudge == SmudgeRead \/ SmudgeWrite

SpecSmudge == InitSmudge /\ [][NextSmudge]_vars

\* ------------------------------------------------------------- properties

RuleTypes == {"MonoBehaviour", "PrefabInstance", "RenderSettings"}

\* the schema pass has just run on the document the run started from
FirstRun == pc = "main" /\ gen = 0

FieldsOf(d) == {d.fields[i] : i \in 1..Len(d.fields)}

\* C1: a non-empty body whose first top-level key is no recognized type comes
\* back byte-identical, whatever else it holds: from the schema pass for any
\* type other than MonoBehaviour, PrefabInstance and RenderSettings, from the
\* component-removal pass for any type other than GameObject.
C1_Passthrough ==
    /\ (pc = "main" /\ input # <<>> /\ input[1] \notin RuleTypes)
           => (filtered.status = "ok" /\ filtered.text = input /\ filtered.log = <<>>)
    /\ (pc = "removed" /\ input # <<>> /\ input[1] # "GameObject")
           => (filtered.status = "ok" /\ filtered.text = input)

\* both passes have run on a Transform that holds an m_Component entry naming
\* a removed document, and the body is the one the run started from
C1_Witness ==
    /\ pc = "removed" /\ gen = 0
    /\ doc.type = "Transform" /\ removed = {1}
    /\ filtered.status = "ok" /\ filtered.text = Render(doc)

\* the text the builder was told to produce: the ranges written and the
\* literals appended, in the order of the calls
Spliced(text, log) ==
    Join([i \in 1..Len(log) |->
             IF log[i].op = "write" THEN Slice(text, log[i].from, log[i].to)
             ELSE IF log[i].op = "append" THEN log[i].lit
             ELSE <<>>])

\* the calls walk the input once from its first byte to its last: each range
\* starts where the one before ended and none runs backwards, so the ranges
\* written and the ranges skipped split the input in its original order
OnePass(text, log) ==
    /\ log # <<>>
    /\ log[1].from = 0
    /\ log[Len(log)].to = Len(text)
    /\ \A i \in 1..Len(log) : log[i].from <= log[i].to
    /\ \A i \in 1..Len(log) - 1 : log[i + 1].from = log[i].to

ReplacementLiterals ==
    { <<SP, "{", "fileID", ":", SP, "0", "}">>, <<SP, "[", "]">>, <<SP, "0">>,
      <<SP, "{", "r", ":", SP, "0", ",", SP, "g", ":", SP, "0", ",", SP,
        "b", ":", SP, "0", ",", SP, "a", ":", SP, "1", "}">> }

\* a literal stands where the value it replaces stood: the range skipped
\* starts or ends at the literal
AtSkippedValue(log, i) ==
    \E j \in 1..Len(log) :
        /\ log[j].op = "skip"
        /\ \/ j > i /\ log[j].from = log[i].from
                    /\ \A k \in i + 1..j - 1 : log[k].op = "skip"
           \/ j = i - 1 /\ log[j].to = log[i].from

\* C2: the rewritten body is the input with only the edited regions changed:
\* every input byte outside a replaced value or a deleted record or entry is
\* in the output exactly once and in its original order, and the only other
\* bytes are the replacement literals, each where the value it replaces stood.
C2_OnlyEditedRegionsChange ==
    (pc \in {"main", "removed"} /\ filtered.status = "ok" /\ filtered.via = "finish")
        => /\ OnePass(input, filtered.log)
           /\ filtered.text = Spliced(input, filtered.log)
           /\ \A i \in 1..Len(filtered.log) :
                  filtered.log[i].op = "append"
                      => /\ \/ filtered.log[i].lit \in ReplacementLiterals
                            \/ /\ Len(filtered.log[i].lit) = 2
                               /\ filtered.log[i].lit[1] = SP
                               /\ Len(filtered.log[i].lit[2]) = 2048
                         /\ AtSkippedValue(filtered.log, i)

\* a body rewritten with two replaced values, one of them an old value of
\* some length, joined from several fragments
C2_Witness ==
    /\ FirstRun /\ filtered.status = "ok" /\ filtered.via = "finish"
    /\ filtered.kind = "Owned" /\ Len(filtered.result) >= 4
    /\ Cardinality({i \in 1..Len(filtered.log) : filtered.log[i].op = "append"}) = 2
    /\ \E i \in 1..Len(filtered.log) :
           filtered.log[i].op = "skip" /\ filtered.log[i].to > filtered.log[i].from + 4

\* C3: for every MonoBehaviour, PrefabInstance, RenderSettings or GameObject
\* on which the rewrite succeeds, rewriting the rewrite's own output also
\* succeeds and gives the same text.
C3_Idempotent ==
    /\ (pc = "main" /\ gen >= 1 /\ input[1] \in RuleTypes)
           => (filtered.status = "ok" /\ filtered.text = input)
    /\ (pc = "removed" /\ gen >= 1 /\ input[1] = "GameObject")
           => (filtered.status = "ok" /\ filtered.text = input)


\* the body of a document with the text of each value given by ValueText
RenderWith(d, ValueText(_)) ==
    LET n == Len(d.fields)
        Line(i) == <<NL, IND, d.fields[i].key, ":">> \o ValueText(i)
    IN  <<d.type, ":">> \o JoinRange([i \in 1..n |-> Line(i)], 1, n)
        \o (IF d.eol THEN <<NL>> ELSE <<>>)

\* a field no rule of the schema pass touches
Plain(f) ==
    \/ f.key \in {"m_Name", "m_Fog", "m_Sun"} /\ ~(f.form = "flowSeq" /\ f.arg # <<>>)
    \/ f.key = "m_Script" /\ f.arg = OrdinaryScript

IsProgramAssetInline(f) ==
    /\ f.key \in {"serializedUdonProgramAsset", "serializedProgramAsset"}
    /\ f.form = "flowMap"

\* C4: in a MonoBehaviour, a serializedUdonProgramAsset or
\* serializedProgramAsset whose value is an inline object-reference mapping,
\* on one line or wrapped onto a continuation line, is output as
\* `<key>: {fileID: 0}` on a single line, and every other line is unchanged.
C4_ProgramAssetReference ==
    ( /\ FirstRun /\ doc.type = "MonoBehaviour"
      /\ \E f \in FieldsOf(doc) : IsProgramAssetInline(f)
      /\ \A f \in FieldsOf(doc) : IsProgramAssetInline(f) \/ Plain(f) )
        => /\ filtered.status = "ok"
           /\ filtered.text =
                  RenderWith(doc, LAMBDA i :
                      IF IsProgramAssetInline(doc.fields[i])
                      THEN <<SP, "{", "fileID", ":", SP, "0", "}">>
                      ELSE FormText(doc.fields[i], <<IND>>))

\* a wrapped reference has been replaced, followed by an untouched field
C4_Witness ==
    /\ FirstRun /\ doc.type = "MonoBehaviour" /\ filtered.status = "ok"
    /\ Len(doc.fields) = 3
    /\ doc.fields[2] = Field("serializedUdonProgramAsset", "flowMap",
                             RefFull("11400000", "abc", "2", "wrap"))
    /\ doc.fields[3].key = "m_Name"
    /\ filtered.text # input

\* the value and the objectReference of a record as the traversal parses them
ParsedValue(r) == IF r[2] = "" THEN ElidedScalar ELSE r[2]
ParsedReference(r) ==
    IF r[3] = "0" THEN ObjectReferenceNull ELSE ObjectReferenceLocal(ParseI64(r[3])[1])
Omitted(r) == should_omit(r[1], ParsedValue(r), ParsedReference(r))
KeptRecords(recs) == SelectSeq(recs, LAMBDA r : ~Omitted(r))

\* the document with only the records of m_Modifications that Keep accepts
WithRecords(d, Keep(_)) ==
    [d EXCEPT !.fields = [i \in 1..Len(d.fields) |->
        IF d.fields[i].form = "mods"
        THEN [d.fields[i] EXCEPT !.arg = SelectSeq(@, Keep)]
        ELSE d.fields[i]]]

RecordsOf(d) ==
    LET k == CHOOSE i \in 1..Len(d.fields) : d.fields[i].form = "mods" IN d.fields[k].arg

RenderedEmpty(text) ==
    \E i \in 1..Len(text) :
        text[i] = "m_Modifications" /\ SubSeq(text, i + 1, i + 4) = <<":", SP, "[", "]">>

\* C6: a record whose propertyPath is serializedProgramAsset and whose value is
\* elided is omitted: next_scalar's value for an elided scalar is the one
\* should_omit tests for, so a PrefabInstance whose only record is of this
\* kind is output with `m_Modifications: []`.
C6_ElidedProgramAssetOmitted ==
    (FirstRun /\ doc.type = "PrefabInstance"
       /\ RecordsOf(doc) = <<<<"serializedProgramAsset", "", "0", "">>>>)
        => /\ filtered.status = "ok"
           /\ should_omit("serializedProgramAsset", ElidedScalar, ObjectReferenceNull)
           /\ RenderedEmpty(filtered.text)
           /\ filtered.text = Render(WithRecords(doc, LAMBDA r : FALSE))

\* YAML's null shorthand, the value should_omit compares with
NullShorthand == "~"

\* the cases of should_omit, as the specification lists them
OmitCase(path, value, reference) ==
    \/ path = "serializedProgramAsset" /\ value = NullShorthand
    \/ path \in {"fallbackStatus", "layerCollisionArr", "completedSDKPipeline"}
           /\ reference.file_id = 0
    \/ \E prefix \in {"DynamicMaterials.Array", "DynamicPrefabs.Array",
                      "animationHashSet.Array"} : StartsWith(path, prefix)
    \/ StartsWith(path, "baseAnimationLayers.Array.data[") /\ EndsWith(path, "].mask")

\* C7: should_omit is true in exactly the listed cases: serializedProgramAsset
\* with the null-shorthand value; fallbackStatus, layerCollisionArr or
\* completedSDKPipeline with a null objectReference; a path starting with
\* DynamicMaterials.Array, DynamicPrefabs.Array or animationHashSet.Array; a
\* path starting with baseAnimationLayers.Array.data[ and ending with ].mask.
C7_ShouldOmitCases ==
    pc = "returned"
        => (omit_result <=> OmitCase(omit_args[1], omit_args[2], omit_args[3]))

\* should_omit has refused a baseAnimationLayers path that does not end with
\* ].mask, and a null reference was passed
C7_Witness ==
    /\ pc = "returned" /\ ~omit_result
    /\ omit_args[1] = "baseAnimationLayers.Array.data[0].isEnabled"
    /\ omit_args[3] = ObjectReferenceNull

IsPipelineSaver(f) ==
    /\ f.key = "m_Script" /\ f.form = "flowMap"
    /\ Tail(f.arg) = << <<"fileID", "229740497">>,
                        <<"guid", "4ecd63eff847044b68db9453ce219299">>,
                        <<"type", "3">> >>

SharesGuidOnly(f) ==
    /\ f.key = "m_Script" /\ f.form = "flowMap" /\ Len(f.arg) = 4
    /\ f.arg[3] = <<"guid", "4ecd63eff847044b68db9453ce219299">>
    /\ f.arg[2] # <<"fileID", "229740497">>

\* the text of a value after its rule has replaced it by lit: an elided value
\* keeps the blank that followed its key
Replaced(f, lit) == lit \o (IF f.form = "elided" THEN f.arg[1] ELSE <<>>)

RECURSIVE ZeroDigits(_)
ZeroDigits(n) ==
    IF n = 1 THEN "0"
    ELSE IF n % 2 = 0 THEN LET h == ZeroDigits(n \div 2) IN h \o h
    ELSE "0" \o ZeroDigits(n - 1)

\* the replacement the specification gives for a key
ReplacementOf(key) ==
    CASE key \in {"DynamicMaterials", "DynamicPrefabs", "animationHashSet"} -> <<SP, "[", "]">>
      [] key \in {"fallbackStatus", "completedSDKPipeline"} -> <<SP, "0">>
      [] key = "layerCollisionArr" -> <<SP, ZeroDigits(2048)>>
      [] key = "m_IndirectSpecularColor" ->
             <<SP, "{", "r", ":", SP, "0", ",", SP, "g", ":", SP, "0", ",", SP,
               "b", ":", SP, "0", ",", SP, "a", ":", SP, "1", "}">>

ReplacedKeys(type) ==
    IF type = "MonoBehaviour"
    THEN {"DynamicMaterials", "DynamicPrefabs", "animationHashSet", "fallbackStatus",
          "completedSDKPipeline", "layerCollisionArr"}
    ELSE IF type = "RenderSettings" THEN {"m_IndirectSpecularColor"}
    ELSE {}

\* the document with the values of the replaced keys replaced
WithReplacements(d) ==
    RenderWith(d, LAMBDA i :
        IF d.fields[i].key \in ReplacedKeys(d.type)
        THEN Replaced(d.fields[i], ReplacementOf(d.fields[i].key))
        ELSE FormText(d.fields[i], <<IND>>))

\* C9: a MonoBehaviour's filtered body is empty exactly when its m_Script
\* equals the sentinel in fileID (229740497), guid
\* (4ecd63eff847044b68db9453ce219299) and type (3); a reference with the guid
\* but another fileID leaves the document in place, under the ordinary rules.
C9_PipelineSaverDropped ==
    (FirstRun /\ doc.type = "MonoBehaviour")
        => /\ (filtered.status = "ok" /\ filtered.text = <<>>)
                  <=> (\E f \in FieldsOf(doc) : IsPipelineSaver(f))
           /\ (\E f \in FieldsOf(doc) : SharesGuidOnly(f))
                  => (filtered.status = "ok" /\ filtered.text = WithReplacements(doc))

\* the sentinel, wrapped onto two lines and after another field, has emptied
\* the body
C9_Witness ==
    /\ FirstRun /\ doc.type = "MonoBehaviour"
    /\ Len(doc.fields) = 2 /\ IsPipelineSaver(doc.fields[2])
    /\ filtered.status = "ok" /\ filtered.text = <<>> /\ filtered.via = "omit"

NamesRemoved(c, ids) == c[2] = "" /\ ParseI64(c[1])[1] \in ids

\* the document with only the m_Component entries that Keep accepts
WithComponents(d, Keep(_)) ==
    [d EXCEPT !.fields = [i \in 1..Len(d.fields) |->
        IF d.fields[i].form = "comps"
        THEN [d.fields[i] EXCEPT !.arg = SelectSeq(@, Keep)]
        ELSE d.fields[i]]]

\* C11: for a GameObject the component-removal output is the input with
\* exactly the `- component: {...}` entries deleted whose reference has no
\* guid and whose fileID is in the removed set, at whichever positions they
\* stand; the kept entries and the other fields are byte-identical and the
\* remaining m_Component is a well-formed sequence.
C11_ComponentsRemoved ==
    (pc = "removed" /\ gen = 0 /\ doc.type = "GameObject")
        => /\ filtered.status = "ok"
           /\ filtered.text = Render(WithComponents(doc, LAMBDA c : ~NamesRemoved(c, removed)))

\* the offsets at which a line of str begins with ---
SeparatorLines(str) ==
    { k \in 0..Len(str) - 1 : (k = 0 \/ str[k] = NL) /\ StartsWith(str[k + 1], "---") }

RECURSIVE ChunksFrom(_, _)
\* the chunks of str from offset b on, one per line that begins with ---
\* (and one for what stands before the first such line)
ChunksFrom(str, b) ==
    IF b >= Len(str) THEN <<>>
    ELSE LET later == { k \in SeparatorLines(str) : k > b }
             e == IF later = {} THEN Len(str)
                  ELSE CHOOSE k \in later : \A j \in later : k <= j
             lfs == { k \in b..e - 1 : str[k + 1] = NL }
             h == IF b \notin SeparatorLines(str) THEN b
                  ELSE IF lfs = {} THEN e
                  ELSE (CHOOSE k \in lfs : \A j \in lfs : k <= j) + 1
         IN  << <<Slice(str, b, h), Slice(str, h, e)>> >> \o ChunksFrom(str, e)

\* C18: YamlSeparated starts a new chunk at every line that begins with ---
\* (also when the line follows another heading line at once) and nowhere
\* else; a chunk's heading is its --- line through the line break, verbatim,
\* and the first chunk has an empty heading when the input does not start
\* with ---.
C18_SplitAtSeparatorLines ==
    pc = "split_done" => chunks = ChunksFrom(stream, 0)

HeadingIds == { 0, 1, -1, 7, -263184, 484105423, 2147483647 }

\* C19: for every id, negative ones too, the line `--- !u!<tag> &<id>`,
\* followed by ` stripped` or not, parses to file_id = id, and is_stripped is
\* true exactly when ` stripped` is there.
C19_HeadingParsed ==
    pc = "parsed"
        => \A tag \in {"114", "1"}, id \in HeadingIds, st \in BOOLEAN, eol \in {"", "\n"} :
               line = "--- !u!" \o tag \o " &" \o FormatI64(id)
                          \o (IF st THEN " stripped" ELSE "") \o eol
                   => parsed_line = ParsedHeadingLine(id, st)

\* a negative id with the stripped flag has been parsed
C19_Witness ==
    /\ pc = "parsed" /\ line = "--- !u!114 &-263184 stripped"
    /\ parsed_line.ok /\ parsed_line.file_id = -263184 /\ parsed_line.is_stripped

\* what may stand behind `&`: a signed 64-bit integer
IntegerIdParts == { "&1", "&0", "&-1", "&-263184", "&484105423", "&2147483647", "&007" }
\* what may follow the id: nothing, or the one flag
FlagTrailings == { "", " stripped", "\n", " stripped\n", "  stripped " }

\* C20: parsing fails, and gives no heading, whenever the line lacks the ---
\* prefix, lacks a `&`, has something else than a signed 64-bit integer right
\* after the `&`, or has a trailing token other than a single `stripped`.
C20_HeadingRejected ==
    pc = "parsed"
        => \A pre \in HeadingPrefixes, tag \in HeadingTags,
              idp \in HeadingIdParts, tr \in HeadingTrailings :
               ( /\ line = pre \o tag \o idp \o tr
                 /\ \/ ~StartsWith(pre, "---")
                    \/ idp = "1"
                    \/ idp \notin IntegerIdParts
                    \/ tr \notin FlagTrailings )
                   => (~parsed_line.ok /\ parsed_line.err # "")

\* a line with an id one past i64::MAX has been refused, and so has a line
\* with a second flag
C20_Witness ==
    /\ pc = "parsed" /\ ~parsed_line.ok
    /\ line \in { "--- !u!114 &9223372036854775808", "--- !u!114 &1 stripped stripped" }

\* `{fileID: <id>}` stands at some place of a body
Occurs(text, id) ==
    \E i \in 1..Len(text) :
        /\ i + 5 <= Len(text)
        /\ text[i] = "{" /\ text[i + 1] = "fileID" /\ text[i + 2] = ":"
        /\ text[i + 3] = SP /\ text[i + 4] = FormatI64(id) /\ text[i + 5] = "}"

\* the body of another section names the fileID of section k
NamedElsewhere(secs, k) ==
    \E j \in 1..Len(secs) : j # k /\ Occurs(secs[j].filtered.text, secs[k].parsed.file_id)

\* C12: the pruning pass empties a stripped section that has a rewritten
\* body exactly when no other section's rewritten body holds the text
\* `{fileID: <its file_id>}`, and leaves every other section as it is
C12_StrippedPruned ==
    [][(pc = "rewritten" /\ pc' = "pruned") =>
          /\ Len(sections') = Len(sections)
          /\ \A k \in 1..Len(sections) :
                IF sections[k].parsed.is_stripped /\ sections[k].filtered.text # <<>>
                THEN /\ (sections'[k].filtered.text = <<>>) <=> ~NamedElsewhere(sections, k)
                     /\ NamedElsewhere(sections, k) => sections'[k] = sections[k]
                ELSE sections'[k] = sections[k]]_vars

\* a stream of two stripped Transforms has been pruned: the first, which
\* nothing names, is emptied, the second, which the first names, is kept
C12_Witness ==
    /\ pc = "pruned"
    /\ Len(sections) = 2
    /\ \A k \in 1..2 :
          /\ sections[k].heading = <<HeadingLine("Transform", k, TRUE), NL>>
          /\ sections[k].parsed = ParsedHeadingLine(k, TRUE)
    /\ sections[1].filtered.text = <<>>
    /\ Occurs(sections[2].filtered.text, 2)

\* `- component: {fileID: <id>}` stands at some place of a body
HasEntry(text, id) ==
    \E i \in 1..Len(text) :
        /\ i + 4 <= Len(text)
        /\ text[i] = "-" /\ text[i + 1] = SP /\ text[i + 2] = "component"
        /\ text[i + 3] = ":" /\ text[i + 4] = SP
        /\ Slice(text, i + 4, i + 10) = <<"{", "fileID", ":", SP, FormatI64(id), "}">>

\* C13: when remove_components::filter has returned, no GameObject holds a
\* local m_Component entry for a section that was dropped, wherever in the
\* stream the dropped section stands
C13_CompleteDroppedSet ==
    pc = "cleaned" =>
        \A k, j \in 1..Len(sections) :
            (/\ StartsWith(sections[k].filtered.text, <<"GameObject", ":">>)
             /\ sections[j].filtered.text = <<>>)
            => ~HasEntry(sections[k].filtered.text, sections[j].parsed.file_id)

\* a GameObject stands before a PipelineSaver MonoBehaviour it names: the
\* MonoBehaviour is dropped and the GameObject has lost the entry for it and
\* kept the other
C13_Witness ==
    /\ pc = "cleaned"
    /\ Len(sections) = 2
    /\ sections[1].heading = <<HeadingLine("GameObject", 1, FALSE), NL>>
    /\ sections[2].heading = <<HeadingLine("MonoBehaviour", 2, FALSE), NL>>
    /\ sections[2].filtered.text = <<>>
    /\ HasEntry(sections[1].filtered.text, 1)
    /\ ~HasEntry(sections[1].filtered.text, 2)
    /\ sections[1].filtered.kind = "Owned"

\* the committed offsets a rewrite went through: before its first builder
\* call, after each call, and when filter_yaml returned
PrintedHistory(r) ==
    <<0>> \o [i \in 1..Len(r.log) |-> r.log[i].to] \o <<r.printed>>

\* C14: in every rewrite, the ones that end in an error included, printed
\* never decreases: each write_until_*, skip_until_* and the append of
\* finish is asked for an offset at or after the committed one (so the
\* assertion of append holds), and the committed offset is the one asked for
C14_PrintedNeverDecreases ==
    pc \in {"main", "removed"} =>
        /\ \A i \in 1..Len(filtered.log) :
              /\ filtered.log[i].from <= filtered.log[i].to
              /\ filtered.log[i].from = PrintedHistory(filtered)[i]
        /\ \A i \in 1..Len(filtered.log) + 1 :
              PrintedHistory(filtered)[i] <= PrintedHistory(filtered)[i + 1]

\* a rewrite that wrote, skipped a value, appended and wrote again up to the
\* end of the input
C14_Witness ==
    /\ pc = "main" /\ filtered.status = "ok" /\ filtered.via = "finish"
    /\ \E i, j, k \in 1..Len(filtered.log) :
          /\ i < j /\ j < k
          /\ filtered.log[i].op = "write" /\ filtered.log[i].from < filtered.log[i].to
          /\ filtered.log[j].op = "skip" /\ filtered.log[j].from < filtered.log[j].to
          /\ filtered.log[k].op = "write" /\ filtered.log[k].from < filtered.log[k].to
          /\ filtered.log[k].to = Len(input)
    /\ filtered.printed = Len(input)

\* the rewrite came to finish() without a write, a skip or an append: the
\* only builder call is the append of finish
NoEditRequested ==
    /\ pc \in {"main", "removed"}
    /\ filtered.status = "ok" /\ filtered.via = "finish"
    /\ Len(filtered.log) = 1

\* C15: when a document of a recognized type holds no field a rule edits,
\* finish() ends with the one fragment that is the whole input and returns
\* it borrowed
C15_BorrowedWhenNoEdit ==
    NoEditRequested =>
        /\ filtered.result = <<input>>
        /\ filtered.kind = "Borrowed"
        /\ filtered.text = input

\* a MonoBehaviour with an ordinary m_Script and an m_Name went through the
\* schema pass without a builder call before finish
C15_Witness ==
    /\ NoEditRequested /\ FirstRun
    /\ doc.type = "MonoBehaviour"
    /\ \E f \in FieldsOf(doc) : f.key = "m_Name"
    /\ \A f \in FieldsOf(doc) : f.key \in {"m_Script", "m_Name"}
    /\ filtered.log[1] = [op |-> "write", from |-> 0, to |-> Len(input), lit |-> <<>>]

RECURSIVE ByteLen(_)
\* str::len of a text
ByteLen(text) == IF text = <<>> THEN 0 ELSE Len(Head(text)) + ByteLen(Tail(text))

RECURSIVE SumOver(_, _)
\* the sum of f over 1..n
SumOver(f, n) == IF n = 0 THEN 0 ELSE f[n] + SumOver(f, n - 1)

\* the calls made before finish(): the log without the append of finish
CallsBeforeFinish == SubSeq(filtered.log, 1, Len(filtered.log) - 1)

\* the ranges written and skipped follow one another from offset 0 with no
\* gap and no overlap
NoGapsOrOverlaps(calls) ==
    /\ calls # <<>> => calls[1].from = 0
    /\ \A i \in 1..Len(calls) : calls[i].from <= calls[i].to
    /\ \A i \in 1..Len(calls) - 1 : calls[i + 1].from = calls[i].to

WrittenBytes(calls) ==
    SumOver([i \in 1..Len(calls) |->
                IF calls[i].op = "write"
                THEN ByteLen(Slice(input, calls[i].from, calls[i].to)) ELSE 0],
            Len(calls))

AppendedBytes(calls) ==
    SumOver([i \in 1..Len(calls) |->
                IF calls[i].op = "append" THEN ByteLen(calls[i].lit) ELSE 0],
            Len(calls))

\* the bytes from the offset committed when finish() is called to the end
TailBytes == ByteLen(Slice(input, filtered.log[Len(filtered.log)].from, Len(input)))

\* C16: after any calls of write_until_*, skip_until_* and append_str whose
\* ranges cover the input from offset 0 with no gap and no overlap, the
\* string finish() returns is as long as the ranges written, the literals
\* appended and the input from the committed offset to its end together
C16_FinishLength ==
    (pc = "finished" /\ NoGapsOrOverlaps(CallsBeforeFinish))
        => ByteLen(filtered.text)
               = WrittenBytes(CallsBeforeFinish) + AppendedBytes(CallsBeforeFinish) + TailBytes

\* finish() returned after a write, a skip and an append, each of at least
\* one byte, and a tail of at least one byte
C16_Witness ==
    /\ pc = "finished"
    /\ NoGapsOrOverlaps(CallsBeforeFinish)
    /\ \E i, j, k \in 1..Len(CallsBeforeFinish) :
          /\ filtered.log[i].op = "write" /\ filtered.log[i].from < filtered.log[i].to
          /\ filtered.log[j].op = "skip" /\ filtered.log[j].from < filtered.log[j].to
          /\ filtered.log[k].op = "append" /\ i < j
    /\ TailBytes > 0
    /\ filtered.kind = "Owned"

\* the builder calls that did something: a literal appended, a range written
\* or skipped that is not empty
Effective(log) == SelectSeq(log, LAMBDA e : e.op = "append" \/ e.from < e.to)

\* call i stands in a run of skips and appends that holds an append
InReplacement(log, i) ==
    \E j \in 1..Len(log) :
        /\ log[j].op = "append"
        /\ \A k \in (IF i < j THEN i..j ELSE j..i) : log[k].op # "write"

\* the edits of a rewrite: a replacement is a literal appended (with the
\* skips of the old value around it), a deletion is a range skipped with no
\* literal put in its place
Edits(log) ==
    Cardinality({ i \in 1..Len(Effective(log)) :
                    \/ Effective(log)[i].op = "append"
                    \/ /\ Effective(log)[i].op = "skip"
                       /\ ~InReplacement(Effective(log), i) })

\* the fragments that hold text
NonEmptyFragments(result) == Cardinality({ i \in 1..Len(result) : result[i] # <<>> })

\* finish() has returned the result of a rewrite
Finished == pc \in {"main", "removed"} /\ filtered.status = "ok" /\ filtered.via = "finish"

\* C17 as stated: a rewrite of K edits leaves at most 2K+1 fragments in the
\* fragment list when finish() returns or joins it
C17_AtMost2KPlus1 ==
    Finished => Len(filtered.result) <= 2 * Edits(filtered.log) + 1

\* C17 amended: a rewrite of K edits leaves at most 2K+2 fragments in the
\* list when finish() returns or joins it, one more than 2K+1 only when the
\* last one is the empty tail finish() pushes before it joins; at most 2K+1
\* of them hold text
C17_AtMost2KPlus2 ==
    Finished =>
        /\ Len(filtered.result) <= 2 * Edits(filtered.log) + 2
        /\ NonEmptyFragments(filtered.result) <= 2 * Edits(filtered.log) + 1
        /\ Len(filtered.result) = 2 * Edits(filtered.log) + 2
               => filtered.result[Len(filtered.result)] = <<>>

\* one value replaced in the middle of a body: the text before it, the
\* literal, the text after it and the empty tail of finish()
C17_Witness ==
    /\ Finished /\ FirstRun
    /\ Edits(filtered.log) = 1
    /\ Len(filtered.result) = 4
    /\ NonEmptyFragments(filtered.result) = 3
    /\ filtered.result[4] = <<>>
    /\ filtered.kind = "Owned"

\* the values of the top-level serializedVersion fields of a document
TopLevelVersions(d) ==
    { IF f.form = "scalar" THEN f.arg[1][1] ELSE f.form :
        f \in {g \in FieldsOf(d) : g.key = "serializedVersion"} }

\* the rewrite failed: filter_yaml returned no body
FailedFatally == filtered.status # "ok" /\ filtered.text = <<>> /\ filtered.kind = "None"

\* C21: a MonoBehaviour or PrefabInstance whose top-level serializedVersion
\* is not 2 fails in the schema pass, a GameObject whose serializedVersion is
\* neither 5 nor 6 fails in the component-removal pass, and no body comes
\* back for it
C21_UnsupportedVersionFails ==
    /\ (pc = "main" /\ gen = 0 /\ doc.type \in {"MonoBehaviour", "PrefabInstance"}
        /\ TopLevelVersions(doc) \ {"2"} # {})
           => FailedFatally
    /\ (pc = "removed" /\ gen = 0 /\ doc.type = "GameObject"
        /\ TopLevelVersions(doc) \ {"5", "6"} # {})
           => FailedFatally

\* the same for the documents in which no PipelineSaver m_Script stands
\* before the serializedVersion
C21_FailsUnlessDroppedFirst ==
    /\ (pc = "main" /\ gen = 0 /\ doc.type \in {"MonoBehaviour", "PrefabInstance"}
        /\ TopLevelVersions(doc) \ {"2"} # {}
        /\ ~(doc.fields[1].key = "m_Script" /\ IsPipelineSaver(doc.fields[1])))
           => FailedFatally
    /\ (pc = "removed" /\ gen = 0 /\ doc.type = "GameObject"
        /\ TopLevelVersions(doc) \ {"5", "6"} # {})
           => FailedFatally

\* the input begins with the header of a Unity file
BeginsWithHeader(str) == str # <<>> /\ StartsWith(str[1], "%YAML")

\* C22: an input that does not begin with the header, the empty one and one
\* with lines that begin with --- included, is printed as it is and the run
\* succeeds
C22_NoHeaderCopiedThrough ==
    (pc = "ran" /\ ~BeginsWithHeader(stream))
        => (filtered.status = "ok" /\ filtered.text = stream)

\* the same for the inputs in which every body after the first chunk is a
\* mapping, the empty input left out
C22_MappingsCopiedThrough ==
    (pc = "ran" /\ ~BeginsWithHeader(stream) /\ stream # <<>>
     /\ \A k \in 2..Len(chunks) :
           StartsWith(chunks[k][2], <<"Transform", ":">>))
        => (filtered.status = "ok" /\ filtered.text = stream)

\* an element with the value of every mask key in it replaced by {fileID: 0}
MaskReplaced(e) ==
    [j \in 1..Len(e) |-> IF e[j][1] = "mask" THEN <<"mask", LitFileID0>> ELSE e[j]]

\* the document with the masks of the elements of baseAnimationLayers
\* replaced: the same elements in the same order, every other key and value
\* as it was
WithMasksReplaced(d) ==
    [d EXCEPT !.fields =
        [i \in 1..Len(d.fields) |->
            IF d.fields[i].key = "baseAnimationLayers"
            THEN [d.fields[i] EXCEPT !.arg = [k \in 1..Len(@) |-> MaskReplaced(@[k])]]
            ELSE d.fields[i]]]

\* C23: the schema pass gives a MonoBehaviour back with the mask of every
\* element of baseAnimationLayers replaced by {fileID: 0} and nothing else
\* changed: the other keys, nested mappings that hold a mask key of their
\* own included, and the number and order of the elements
C23_MasksReplaced ==
    (FirstRun /\ doc \in LayerDocs)
        => (filtered.status = "ok" /\ filtered.text = Render(WithMasksReplaced(doc)))

\* two elements went through the pass: one whose mask stands between two
\* other keys, one with a nested block mapping that holds a mask key and is
\* left as it is
C23_Witness ==
    /\ FirstRun /\ filtered.status = "ok"
    /\ doc \in LayerDocs
    /\ doc.fields[2].arg = << <<IsEnabled, MaskRef("11"), IsDefault>>,
                              <<MaskRef("12"), InnerBlock>> >>
    /\ filtered.text # input
    /\ Contains(filtered.text, <<"mask", ":", SP, "2">>)
    /\ ~Contains(filtered.text, <<"fileID", ":", SP, "11">>)

RECURSIVE WordsFrom(_, _, _)
\* the words of a line: its runs of characters other than blanks and tabs
WordsFrom(s, k, cur) ==
    IF k > Len(s) THEN (IF cur = "" THEN <<>> ELSE <<cur>>)
    ELSE IF SubSeq(s, k, k) \in {" ", "\t"}
         THEN (IF cur = "" THEN <<>> ELSE <<cur>>) \o WordsFrom(s, k + 1, "")
         ELSE WordsFrom(s, k + 1, cur \o SubSeq(s, k, k))

Words(s) == WordsFrom(s, 1, "")

ControlledPatterns == {"*.asset", "*.prefab", "*.unity"}

\* the line is a line for a controlled pattern
IsPatternLine(l) == Words(l) # <<>> /\ Words(l)[1] \in ControlledPatterns

\* the attributes of a line that set the attribute of a name
AttrsNamed(l, name) ==
    { i \in 2..Len(Words(l)) :
        \/ Words(l)[i] = name
        \/ StrStartsWith(Words(l)[i], name \o "=") }

\* the attributes the tool asks of a line for a pattern
RequiredAttrs(l) ==
    {"filter", "text", "eol"} \cup (IF Words(l)[1] = "*.asset" THEN {"unity-sort"} ELSE {})

\* a line for a controlled pattern carries filter=vrc, a text and an eol
\* attribute, the line for *.asset a unity-sort attribute as well
Carries(l) ==
    /\ \A name \in RequiredAttrs(l) : AttrsNamed(l, name) # {}
    /\ \E i \in 2..Len(Words(l)) : Words(l)[i] = "filter=vrc"

\* the line out is the line in with the attributes it lacked added at its
\* end, each once
Completes(out, in) ==
    /\ Len(Words(out)) >= Len(Words(in))
    /\ SubSeq(Words(out), 1, Len(Words(in))) = Words(in)
    /\ \A name \in RequiredAttrs(in) :
          Cardinality(AttrsNamed(out, name))
              = (IF AttrsNamed(in, name) = {} THEN 1 ELSE Cardinality(AttrsNamed(in, name)))
    /\ Len(Words(out)) - Len(Words(in))
          = Cardinality({name \in RequiredAttrs(in) : AttrsNamed(in, name) = {}})

\* the lines update_attributes_file returned
UpdatedLines == StrLines(line)

\* C24: after update_attributes_file every controlled pattern has a line,
\* every line for one carries filter=vrc, text and eol (the *.asset line
\* unity-sort too) with the attributes it had kept and none doubled, and
\* every other line stands where it stood, as it was
C24_AttributesUpdated ==
    (pc = "updated" /\ gen = 0) =>
        /\ Len(UpdatedLines) >= Len(chunks)
        /\ \A k \in 1..Len(chunks) :
              IF IsPatternLine(chunks[k])
              THEN Carries(UpdatedLines[k]) /\ Completes(UpdatedLines[k], chunks[k])
              ELSE UpdatedLines[k] = chunks[k]
        /\ \A k \in (Len(chunks) + 1)..Len(UpdatedLines) :
              /\ IsPatternLine(UpdatedLines[k]) /\ Carries(UpdatedLines[k])
              /\ \A j \in 1..Len(chunks) :
                    IsPatternLine(chunks[j]) => Words(chunks[j])[1] # Words(UpdatedLines[k])[1]
        /\ \A p \in ControlledPatterns :
              \E k \in 1..Len(UpdatedLines) :
                  IsPatternLine(UpdatedLines[k]) /\ Words(UpdatedLines[k])[1] = p

\* the same for the files in which the *.asset line has an attribute
C24_UpdatedUnlessBareAsset ==
    (pc = "updated" /\ gen = 0
     /\ \A k \in 1..Len(chunks) : Words(chunks[k]) # <<"*.asset">>)
        => C24_AttributesUpdated

\* C25: update_attributes_file applied to the lines of its own output returns
\* that output
C25_UpdateIdempotent ==
    (pc = "updated" /\ gen >= 1) => UpdatedLines = chunks

\* the same for the files in which the *.asset line has an attribute
C25_IdempotentUnlessBareAsset ==
    (pc = "updated" /\ gen >= 1
     /\ \A k \in 1..Len(iter) : Words(iter[k]) # <<"*.asset">>)
        => UpdatedLines = chunks

\* the tokens before the value of the first key
HeadingTokens == <<"StreamStart", "BlockMappingStart", "Key", "Scalar", "Value">>
ValueStart == Len(HeadingTokens)

IsStartToken(t) ==
    t.type \in {"BlockMappingStart", "BlockSequenceStart", "FlowMappingStart",
                "FlowSequenceStart"}
IsEndToken(t) == t.type \in {"BlockEnd", "FlowMappingEnd", "FlowSequenceEnd"}

\* the constructs open after the tokens i..j
OpenAfter(toks, i, j) ==
    Cardinality({m \in i..j : IsStartToken(toks[m])})
        - Cardinality({m \in i..j : IsEndToken(toks[m])})

\* the tokens i..j open nothing they do not close and close nothing they did
\* not open
Balanced(toks, i, j) ==
    /\ OpenAfter(toks, i, j) = 0
    /\ \A m \in i..j : OpenAfter(toks, i, m) >= 0

\* the end token of the construct the token i starts, Len(toks) + 1 when the
\* tokens have none
MatchingEnd(toks, i) ==
    LET ends == {j \in (i + 1)..Len(toks) : OpenAfter(toks, i, j) = 0}
    IN  IF ends = {} THEN Len(toks) + 1 ELSE CHOOSE j \in ends : \A m \in ends : j <= m

RECURSIVE ValueEnd(_, _), EntriesEnd(_, _)
\* the last token of the value that starts after the token i (i itself for a
\* value left out), by the grammar of the tokens; Len(toks) + 1 when the
\* tokens hold no complete value there
ValueEnd(toks, i) ==
    IF i >= Len(toks) THEN Len(toks) + 1
    ELSE LET t == toks[i + 1] IN
         IF t.type = "Scalar" THEN i + 1
         ELSE IF t.type \in {"Key", "Value", "BlockEnd", "FlowMappingEnd"} THEN i
         ELSE IF IsStartToken(t) THEN MatchingEnd(toks, i + 1)
         ELSE IF t.type = "BlockEntry" THEN EntriesEnd(toks, i)
         ELSE Len(toks) + 1

\* the last token of the entries of a block sequence without a start token,
\* the first of them after the token i
EntriesEnd(toks, i) ==
    LET e == ValueEnd(toks, i + 1) IN
    IF e >= Len(toks) THEN Len(toks) + 1
    ELSE IF toks[e + 1].type = "BlockEntry" THEN EntriesEnd(toks, e)
    ELSE e

\* the builder has been asked nothing
NothingEmitted(c) ==
    c.log = <<>> /\ c.result = <<>> /\ c.will_write = None /\ c.printed = 0

\* the value of the first key of the document
ValueOf(yaml) == CHOOSE v \in CursorValues : \E t \in CursorTails : yaml = <<"k", ":">> \o v \o t

\* skip_next_value has just been called on the value of the first key, a
\* value that is complete, with every token of the document to come
SkippedWholeValue ==
    /\ pc = "after" /\ line = "skip_next_value" /\ gen = 0
    /\ ValueOf(input) # FlowMapOpenValue

\* C26: skip_next_value on a value, whatever its form, succeeds, consumes the
\* tokens of the value and no other, and asks nothing of the builder
C26_SkipConsumesValue ==
    SkippedWholeValue =>
        /\ Ok(builder)
        /\ Consumed(builder) = ValueEnd(builder.toks, ValueStart)
        /\ NothingEmitted(builder)

\* the same for every value but a flow sequence with elements and a block
\* sequence deeper than its key
C26_SkipConsumesOtherValues ==
    (SkippedWholeValue
     /\ ValueOf(input) \notin {FlowSeqValue, FlowSeqOfMapsValue, BlockSeqIndentedValue})
        => C26_SkipConsumesValue

\* mapping() or sequence() has just returned Ok on the value of the first key
CombinatorReturned == pc = "after" /\ line \in {"mapping", "sequence"} /\ Ok(builder)

\* the tokens taken since the value began close every construct they open,
\* and the last of them is the last token of the value
ConstructClosed(c) ==
    /\ Balanced(c.toks, ValueStart + 1, Consumed(c))
    /\ Consumed(c) = ValueEnd(c.toks, ValueStart)

\* C27 as stated: whenever mapping() or sequence() returns Ok, every start
\* token taken inside the call has had its end token taken, and the cursor
\* stands right behind the construct
C27_ClosedOnReturn == CombinatorReturned => ConstructClosed(builder)

\* C27: whenever mapping() or sequence() returns Ok and its closure has not
\* broken out of it, every start token taken inside the call has had its end
\* token taken, and the cursor stands right behind the construct
C27_ClosedUnlessBroken ==
    (CombinatorReturned /\ ~builder.bval) => ConstructClosed(builder)

\* mapping() has returned from a mapping that holds another construct
C27_Witness ==
    /\ CombinatorReturned /\ ~builder.bval /\ line = "mapping"
    /\ \E m \in (ValueStart + 1)..Consumed(builder) :
          OpenAfter(builder.toks, ValueStart + 1, m) >= 2

\* the lookahead slot is empty or holds the token pulled last
SlotHoldsLastPulled(c) ==
    \/ c.next_token = None
    \/ /\ Len(c.next_token) = 1
       /\ c.ti >= 1
       /\ c.next_token[1] = c.toks[c.ti]

\* a step that is a call of peek(): nothing is pulled when the slot is full,
\* one token is pulled into the slot when it is empty, no token is delivered
PeekStep ==
    /\ builder.next_token # None => builder' = builder
    /\ (builder.next_token = None /\ Ok(builder')) =>
          /\ builder'.ti = builder.ti + 1
          /\ builder'.next_token = Some(builder.toks[builder.ti + 1])
    /\ Consumed(builder') = Consumed(builder)

\* a step that is a call of next(): the token delivered is the one after the
\* token delivered last, the one in the slot when the slot is full, and the
\* slot is empty afterwards
NextStep ==
    Ok(builder') =>
        /\ builder'.tok = builder.toks[Consumed(builder) + 1]
        /\ Consumed(builder') = Consumed(builder) + 1
        /\ builder'.next_token = None
        /\ builder.next_token # None =>
              /\ builder'.tok = builder.next_token[1]
              /\ builder'.ti = builder.ti

\* C28: the lookahead slot holds at most one token, the one pulled last;
\* peek() pulls only into an empty slot and changes nothing on a full one;
\* next() after peek() delivers the token of the slot and empties it; next()
\* delivers the tokens of the source one after the other
C28_OneTokenLookahead ==
    [][/\ SlotHoldsLastPulled(builder')
       /\ line' = "peek" => PeekStep
       /\ line' \in {"next", "next after peek"} => NextStep]_vars

\* next() has delivered the token a peek() had left in the slot
C28_Witness ==
    /\ pc = "after" /\ line = "next after peek" /\ Ok(builder)
    /\ builder.next_token = None
    /\ builder.tok = builder.toks[builder.ti]

\* the fragments of a pending range: none when there is no range
Flushed(yaml, pending) ==
    IF pending = None THEN <<>> ELSE <<Slice(yaml, pending[1][1], pending[1][2])>>

RECURSIVE FragmentsFrom(_, _, _, _, _)
\* the fragments the requests k.. of the log leave, by the rule of the
\* specification: a write that starts where the pending range ends extends
\* it, any other write flushes it and opens a new one, a literal flushes it
\* and follows it; at the end the range is flushed, and an empty tail is added
\* unless there is one fragment
FragmentsFrom(yaml, log, k, pending, fragments) ==
    IF k > Len(log)
    THEN LET all == fragments \o Flushed(yaml, pending)
         IN  IF Len(all) = 1 THEN all ELSE Append(all, <<>>)
    ELSE LET r == log[k] IN
         IF r.op = "write" /\ r.from < r.to
         THEN IF pending # None /\ pending[1][2] = r.from
              THEN FragmentsFrom(yaml, log, k + 1, Some(<<pending[1][1], r.to>>), fragments)
              ELSE FragmentsFrom(yaml, log, k + 1, Some(<<r.from, r.to>>),
                                 fragments \o Flushed(yaml, pending))
         ELSE IF r.op = "append"
              THEN FragmentsFrom(yaml, log, k + 1, None,
                                 Append(fragments \o Flushed(yaml, pending), r.lit))
              ELSE FragmentsFrom(yaml, log, k + 1, pending, fragments)

\* the rewrite of the document ended with finish()
RewriteFinished ==
    pc \in {"main", "removed"} /\ filtered.status = "ok" /\ filtered.via = "finish"

\* the document is a PrefabInstance with records, none of which is omitted
AllRecordsKept ==
    /\ FirstRun /\ doc.type = "PrefabInstance"
    /\ Len(RecordsOf(doc)) >= 1
    /\ \A i \in 1..Len(RecordsOf(doc)) : ~Omitted(RecordsOf(doc)[i])

\* C29: a write request that starts where the pending range ends extends the
\* range, any other flushes the range as one fragment first; so a
\* PrefabInstance whose records are all kept ends with the one fragment that
\* is the whole input
C29_ContiguousWritesMerged ==
    RewriteFinished =>
        /\ filtered.result = FragmentsFrom(input, filtered.log, 1, None, <<>>)
        /\ AllRecordsKept => filtered.result = <<input>>

\* a PrefabInstance with two records, both kept: the writes up to the key, up
\* to each record and up to the end of the input follow one another
C29_Witness ==
    /\ RewriteFinished /\ AllRecordsKept
    /\ Len(RecordsOf(doc)) = 2
    /\ Len(filtered.log) = 4
    /\ \A k \in 1..4 : filtered.log[k].op = "write" /\ filtered.log[k].from < filtered.log[k].to
    /\ \A k \in 1..3 : filtered.log[k].to = filtered.log[k + 1].from
    /\ filtered.result = <<input>>

\* skip_next_value(), mapping() or sequence() has just returned
CallReturned == pc = "after" /\ line \in {"skip_next_value", "mapping", "sequence"}

\* the token source ends inside the value: it has some of the tokens of the
\* value and not all of them
CutInsideValue ==
    /\ ValueStart < Len(builder.toks)
    /\ Len(builder.toks) < ValueEnd(Scan(input), ValueStart)
    /\ ValueEnd(Scan(input), ValueStart) <= Len(Scan(input))

\* the forms of value skip_next_value has an arm for
SkippableValue ==
    ValueOf(input) \notin {FlowSeqValue, FlowSeqOfMapsValue, BlockSeqIndentedValue,
                           FlowMapOpenValue}

\* C30: on a finite token source a call of skip_next_value(), mapping() or
\* sequence() returns, with a result or an error; between two entries into a
\* loop body a token is delivered, so the bodies entered are no more than the
\* tokens delivered (and one that ended in the error); when the source ends
\* with a construct open the call does not succeed, and skip_next_value on a
\* value cut short ends with the end-of-stream error
C30_TerminatesOnFiniteSource ==
    CallReturned =>
        /\ builder.err \in {"ok", "EOF", "panic"}
        /\ ~builder.stalled
        /\ builder.iters <= Consumed(builder) - ValueStart + (IF Ok(builder) THEN 0 ELSE 1)
        /\ builder.ti <= Len(builder.toks)
        /\ builder.err = "EOF" => builder.ti = Len(builder.toks) /\ builder.next_token = None
        /\ (/\ builder.ti = Len(builder.toks)
            /\ OpenAfter(builder.toks, ValueStart + 1, Len(builder.toks)) > 0
            /\ ~builder.bval) => ~Ok(builder)
        /\ (line = "skip_next_value" /\ SkippableValue /\ CutInsideValue) => builder.err = "EOF"

\* skip_next_value met the end of the token source inside a construct within
\* a construct, after more than one loop body
C30_Witness ==
    /\ CallReturned /\ line = "skip_next_value" /\ SkippableValue /\ CutInsideValue
    /\ builder.err = "EOF"
    /\ builder.iters >= 2
    /\ OpenAfter(builder.toks, ValueStart + 1, Len(builder.toks)) >= 2

\* ---------------------------------------------------------------- C31
\* the method was called with the cursor in front of the first value
CalledAtValue(method) ==
    /\ line = method
    /\ iter # <<>>
    /\ Consumed(iter[1]) = ValueStart

\* the integers written in FileIdTexts
FileIdOf(f) == CASE f = "0" -> 0 [] f = "5" -> 5 [] f = "-7" -> 0 - 7

IntegerTexts == {"0", "5", "-7"}

\* parse_object_reference was called on the reference with these keys
ReferenceParsedAtValue(f, g, t, o, first) ==
    /\ CalledAtValue("parse_object_reference")
    /\ input = ContextDoc(ReferenceValue(f, g, t, o, first))

\* what the claim says of a reference whose fileID, if any, is an integer
ClaimedReference(f, g, t, o) ==
    IF o # "none" \/ f = "none" THEN builder.err = "panic"
    ELSE /\ Ok(builder)
         /\ (builder.ref = ObjectReferenceNull) <=> (FileIdOf(f) = 0)
         /\ FileIdOf(f) # 0 /\ g # "none" =>
                /\ builder.ref.file_id = FileIdOf(f)
                /\ builder.ref.guid = Some(g)
         /\ FileIdOf(f) # 0 /\ g = "none" =>
                builder.ref = ObjectReferenceLocal(FileIdOf(f))

Before == iter[1]

\* the token source of c has a token after those delivered
HasLookahead(c) == Consumed(c) < Len(c.toks)

\* the next token c will deliver
Lookahead(c) == c.toks[Consumed(c) + 1]

ElidedLookaheads == {"BlockEnd", "FlowMappingEnd", "Key", "Value"}

C32_WitnessScalar ==
    /\ line = "next_scalar"
    /\ HasLookahead(Before)
    /\ Lookahead(Before).type = "Scalar"
    /\ builder.str = "abc"

\* next_scalar failed on the start of a flow mapping
C32_WitnessFatal ==
    /\ line = "next_scalar"
    /\ HasLookahead(Before)
    /\ Lookahead(Before).type = "FlowMappingStart"
    /\ builder.err = "panic"

\* ---------------------------------------------------------------- C33
\* the tokens of the first value hold the scalar `stop`
HasStop(toks) ==
    \E i \in 1..Len(toks) : toks[i].type = "Scalar" /\ toks[i].val = "stop"

StopIndex(toks) ==
    CHOOSE i \in 1..Len(toks) : toks[i].type = "Scalar" /\ toks[i].val = "stop"

\* the first value is a mapping, a sequence
IsMappingAt(toks, i) == toks[i + 1].type \in {"BlockMappingStart", "FlowMappingStart"}
IsSequenceAt(toks, i) == toks[i + 1].type \in {"BlockEntry", "FlowSequenceStart"}

\* the entries of the first value up to the token i: the keys of a mapping,
\* the scalars of a sequence
KeysUpTo(toks, i) ==
    Cardinality({m \in (ValueStart + 1)..i : toks[m].type = "Key"})
ItemsUpTo(toks, i) ==
    Cardinality({m \in (ValueStart + 1)..i : toks[m].type = "Scalar"})

\* the tokens the closure stop_key takes at the key `stop`: the key, the
\* value indicator and the scalar of the value, if it has one
StopKeyEnd(toks) ==
    StopIndex(toks) + 1 + (IF toks[StopIndex(toks) + 2].type = "Scalar" THEN 1 ELSE 0)

\* the calls of the closure during the last call
Visits == builder.visits - Before.visits

\* the document is one whose first value the closures can read: its
\* elements are scalars, its values scalars, flow mappings or left out at
\* the end
StopDocs == { ContextDoc(v) : v \in StopValues }

\* mapping() was called on a mapping with the closure stop_key, sequence() on
\* a sequence with the closure stop_item
StopKeyCalled ==
    /\ CalledAtValue("mapping stop_key")
    /\ input \in StopDocs
    /\ IsMappingAt(builder.toks, ValueStart)
StopItemCalled ==
    /\ CalledAtValue("sequence stop_item")
    /\ input \in StopDocs
    /\ IsSequenceAt(builder.toks, ValueStart)

\* C33: when the closure returns the stop signal with a value, mapping() and
\* sequence() return that value at once, without calling the closure again
\* and without taking another token; when the closure never stops they return
\* the default value after the end of the construct.
C33_BreakReturnsAtOnce ==
    /\ StopKeyCalled =>
           /\ Ok(builder)
           /\ IF HasStop(builder.toks)
              THEN /\ builder.bval = TRUE
                   /\ Consumed(builder) = StopKeyEnd(builder.toks)
                   /\ Visits = KeysUpTo(builder.toks, StopIndex(builder.toks))
              ELSE /\ builder.bval = FALSE
                   /\ Consumed(builder) = ValueEnd(builder.toks, ValueStart)
                   /\ Visits = KeysUpTo(builder.toks, Consumed(builder))
    /\ StopItemCalled =>
           /\ Ok(builder)
           /\ IF HasStop(builder.toks)
              THEN /\ builder.bval = TRUE
                   /\ Consumed(builder) = StopIndex(builder.toks)
                   /\ Visits = ItemsUpTo(builder.toks, StopIndex(builder.toks))
              ELSE /\ builder.bval = FALSE
                   /\ Consumed(builder) = ValueEnd(builder.toks, ValueStart)
                   /\ Visits = ItemsUpTo(builder.toks, Consumed(builder))

\* the closure stopped mapping() at the second of three keys of a block
\* mapping
C33_Witness ==
    /\ StopKeyCalled
    /\ builder.toks[ValueStart + 1].type = "BlockMappingStart"
    /\ HasStop(builder.toks)
    /\ builder.bval = TRUE
    /\ Visits = 1 + 1
    /\ Consumed(builder) < ValueEnd(builder.toks, ValueStart)

\* the closure stopped sequence() at the second of three elements
C33_WitnessSequence ==
    /\ StopItemCalled
    /\ HasStop(builder.toks)
    /\ builder.bval = TRUE
    /\ Visits = 1 + 1

\* the closure never stopped mapping()
C33_WitnessDefault ==
    /\ StopKeyCalled
    /\ ~HasStop(builder.toks)
    /\ builder.bval = FALSE
    /\ Visits = 1 + 1

\* ---------------------------------------------------------------- C34
CurrentTokenMethods == {"write_until_current_token", "skip_until_current_token"}
LastTokenMethods == {"write_until_last_token", "skip_until_last_token"}

\* the span the last call was anchored to, None when the call was none of the
\* four or the span was not there
AnchorSpan ==
    IF iter = <<>> THEN None
    ELSE IF line \in CurrentTokenMethods THEN Before.mark
    ELSE IF line \in LastTokenMethods THEN Before.last_mark
    ELSE None

\* the offset k moved back over the whitespace before it
TrimmedBefore(yaml, k) ==
    LET solid == {n \in 0..k : n = 0 \/ ~IsWhitespace(yaml[n])}
    IN  CHOOSE n \in solid : \A m \in solid : m <= n

C34_WitnessWide ==
    /\ AnchorSpan # None
    /\ line = "skip_until_last_token"
    /\ AnchorSpan[1].e > AnchorSpan[1].b
    /\ builder.printed = AnchorSpan[1].e

\* ---------------------------------------------------------------- C35
\* the span of the i-th token, None before the first
SpanOf(toks, i) ==
    IF i < 1 THEN None ELSE Some([b |-> toks[i].b, e |-> toks[i].e])

\* the spans of c are those of the last token delivered and of the one
\* delivered before it
SpansFollowDelivered(c) ==
    /\ c.mark = SpanOf(c.toks, Consumed(c))
    /\ c.last_mark = SpanOf(c.toks, Consumed(c) - 1)

\* a step of next() that succeeds
NextSucceeds ==
    /\ line' = "next" /\ pc' = "cursor" /\ Ok(builder')
    /\ builder'.next_token = None
    /\ Consumed(builder') = Consumed(builder) + 1

\* a step of peek()
PeekCalled == line' = "peek" /\ pc = "cursor" /\ pc' = "cursor"

\* a step of one of the write and skip methods with a token peeked
AnchoredAfterPeek ==
    /\ pc = "cursor" /\ pc' = "called"
    /\ line' \in CurrentTokenMethods \cup LastTokenMethods
    /\ builder.next_token # None

\* C35: after every successful next() the current span is that of the token
\* just returned and the previous span that of the token the next() before it
\* returned; peek() changes neither; so a write or skip after a peek() is
\* anchored to the last token consumed (the one before it for the *_last_token
\* methods), not to the token peeked.
C35_SpansFollowNext ==
    [][/\ NextSucceeds =>
              /\ builder'.tok = builder.toks[Consumed(builder) + 1]
              /\ builder'.mark = SpanOf(builder.toks, Consumed(builder) + 1)
              /\ builder'.last_mark = SpanOf(builder.toks, Consumed(builder))
              /\ builder'.last_mark = builder.mark
       /\ PeekCalled =>
              /\ builder'.mark = builder.mark
              /\ builder'.last_mark = builder.last_mark
              /\ Consumed(builder') = Consumed(builder)
       /\ AnchoredAfterPeek =>
              /\ SpansFollowDelivered(builder)
              /\ Consumed(builder) >= 1 + (IF line' \in LastTokenMethods THEN 1 ELSE 0) =>
                     builder'.printed =
                         TrimmedBefore(builder.yaml,
                             builder.toks[Consumed(builder)
                                 - (IF line' \in LastTokenMethods THEN 1 ELSE 0)].e)]_vars

\* a skip after a peek went to the end of the token consumed last, short of
\* the token peeked
C35_Witness ==
    /\ line = "skip_until_current_token"
    /\ iter # <<>>
    /\ Before.next_token # None
    /\ Consumed(Before) > 1
    /\ builder.printed = Before.toks[Consumed(Before)].e
    /\ builder.printed < Before.next_token[1].e

\* ---------------------------------------------------------------- C36
\* a program asset field whose value is a plain scalar or left out
IsProgramAssetScalar(f) ==
    /\ f.key \in {"serializedUdonProgramAsset", "serializedProgramAsset"}
    /\ f.form \in {"scalar", "elided"}

\* C36: the replacement of a MonoBehaviour's serializedUdonProgramAsset or
\* serializedProgramAsset by `{fileID: 0}` is conditional on the value being
\* an inline mapping: with a plain scalar or no value the field, and with it
\* the document, is output unchanged.
C36_ScalarProgramAssetKept ==
    ( /\ FirstRun /\ doc.type = "MonoBehaviour"
      /\ \E f \in FieldsOf(doc) : IsProgramAssetScalar(f)
      /\ \A f \in FieldsOf(doc) : IsProgramAssetScalar(f) \/ Plain(f) )
        => /\ filtered.status = "ok"
           /\ filtered.text = input

\* ---------------------------------------------------------------- C37
\* the sections whose filtered body is empty
Dropped(secs) == {k \in 1..Len(secs) : secs[k].filtered.text = <<>>}

\* C37: the component-removal pass never changes which documents are dropped:
\* a section whose filtered body is empty is skipped and stays empty, and a
\* section whose body is not empty keeps a body that is not empty.
C37_DroppedSetKept ==
    [][pc = "pruned" =>
          /\ Len(sections') = Len(sections)
          /\ Dropped(sections') = Dropped(sections)
          /\ \A k \in Dropped(sections) : sections'[k] = sections[k]]_vars

\* the pass has taken a component out of a GameObject, next to a dropped
\* document, and the GameObject is still there
C37_Witness ==
    /\ pc = "cleaned"
    /\ Dropped(sections) = {1}
    /\ Len(sections) = 1 + 1
    /\ sections[2].filtered.kind = "Owned"
    /\ sections[2].filtered.text # <<>>
    /\ sections[2].filtered.text # chunks[3][2]
    /\ ~HasEntry(sections[2].filtered.text, 1)

\* ---------------------------------------------------------------- C38
RECURSIVE ConcatPairs(_)
\* heading then body of every pair, in order
ConcatPairs(items) ==
    IF items = <<>> THEN <<>>
    ELSE items[1][1] \o items[1][2] \o ConcatPairs(Tail(items))

\* C38: for every input YamlSeparated yields finitely many (heading, body)
\* pairs (no more than the input has characters), none with heading and body
\* both empty, and heading then body of all pairs, in order, is the input: at
\* every point the pairs yielded so far followed by the text not yet split
\* are the input, and nothing is left when the iterator ends.
C38_PairsReproduceInput ==
    pc \in {"split", "split_done"} =>
        /\ ConcatPairs(chunks) \o iter = stream
        /\ \A k \in 1..Len(chunks) : ~(chunks[k][1] = <<>> /\ chunks[k][2] = <<>>)
        /\ Len(chunks) <= Len(stream)
        /\ pc = "split_done" => iter = <<>> /\ ConcatPairs(chunks) = stream

\* the iterator has ended after a pair without heading and a pair with a
\* heading line and a body
C38_Witness ==
    /\ pc = "split_done"
    /\ Len(chunks) = 1 + 1
    /\ chunks[1][1] = <<>> /\ chunks[1][2] # <<>>
    /\ chunks[2][1] # <<>> /\ chunks[2][2] # <<>>
    /\ ConcatPairs(chunks) = stream

\* ---------------------------------------------------------------- C39
\* C39: for an output of n records, each a path, an attribute and a value
\* ended by a NUL, GitCheckAttrResult yields exactly those n triples in order
\* and then None, and never panics.
C39_YieldsRecords ==
    pc \in {"check_attr", "check_attr_done", "panicked"} =>
        /\ pc # "panicked"
        /\ Len(chunks) <= Len(sections)
        /\ \A k \in 1..Len(chunks) : chunks[k] = sections[k]
        /\ pc = "check_attr_done" => chunks = sections

\* ---------------------------------------------------------------- C40
\* C40: smudge is cat: every byte read from stdin is written to stdout once
\* and in order, whatever the length of the input and however reads are cut
\* short or interrupted and writes are cut short: before every read stdout
\* holds the bytes read so far, and at the end the whole input.
C40_SmudgeIsCat ==
    /\ pc = "read" /\ line # "" => chunks = SubSeq(stream, 1, gen)
    /\ pc = "done" => chunks = stream

====
